---- MODULE Spec2Model ----
(***************************************************************************)
(* Workspace codebase synchronization of the PostHog editor extension:     *)
(* the WorkspaceSync client (src/integrations/indexing/workspace-sync.ts)  *)
(* and the CodebaseIndexer orchestrator (src/integrations/indexing/sync.ts)*)
(* as state machines.  Every await of the source is a step boundary; the   *)
(* code between two awaits is one atomic action (single-threaded event     *)
(* loop).                                                                  *)
(***************************************************************************)
EXTENDS Integers, Sequences, FiniteSets, TLC

(* ------------------------------ bounds --------------------------------- *)
NumRoots == 2          \* workspace roots
NumClients == 2        \* WorkspaceSync instances alive at the same time
NumHashes == 2         \* distinct file content hashes
MaxDiverging == 2      \* length of the remote's diverging_files list
MaxNow == 3            \* the clock stops here (units of five minutes)
MaxCreate == 2         \* create-codebase requests the remote answers
MaxCalls == 2          \* sync() invocations in progress at the same time
MaxYield == 1          \* diverging_files length in the orchestrator's cycles
NumRepos == 1          \* workspace roots that are git repositories
NumBuilds == 2         \* builds of the tree of one workspace
NumWalkers == 3        \* MerkleTreeWalker instances, one buildTree call each
MaxClock == 3          \* the walker's clock stops here (units of ten seconds)
MaxInvalidations == 1  \* walkDirCache.invalidate() calls
MaxConcurrent == 2     \* buildTree calls in progress at the same time
NumObfuscators == 3    \* PathObfuscator instances
MaxPathLen == 4        \* characters of an obfuscated path

(* ------------------------- program constants --------------------------- *)
\* workspace-sync.ts:153  1000 * 60 * 10 ms; the clock counts units of five minutes
TenMinutes == 2
\* workspace-sync.ts:27  this.codebaseId = null (also a falsy / absent id)
NullId == 0
\* sync.ts:404  retriesCount >= 3
MaxRetries == 3

Roots == 1..NumRoots
Repos == 1..NumRepos
Clients == 1..NumClients
Hashes == 1..NumHashes
Commits == {"", "c1", "c2"}      \* branch hashes; "" is `|| ''` of sync.ts:288
GitCommits == {"c1", "c2"}       \* HEAD commits of the repositories
Calls == 1..MaxCalls

SeqsUpTo(S, n) == UNION {[1..k -> S] : k \in 0..n}

VARIABLES
    now,            \* Date.now()
    codebaseKeys,   \* workspaceState: codebase_key_{workspacePath} -> id
    syncStatuses,   \* workspaceState: codebase_{codebaseId}_sync_status -> SyncStatus
    createCalls,    \* POST /codebases requests sent so far
    ws,             \* WorkspaceSync instances driven directly (unit level)
    gen,            \* the running retrieveDivergingFiles generator of one of them
    initialized,    \* CodebaseIndexer.initialized
    syncLocked,     \* CodebaseIndexer.syncLocked
    services,       \* CodebaseIndexer.workspaceSyncServices: root -> WorkspaceSync
    repoBranches,   \* CodebaseIndexer.repoBranches: root -> last seen HEAD commit
    listening,      \* which listeners init() has registered: "none", "files", "all"
    debounce,       \* the pending timers of debouncedSync
    head,           \* the repositories' HEAD commit (the git extension's state)
    calls,          \* the sync() invocations in progress, with their cycle
    dirCache,       \* walkDirCache: the roots whose directory listings are cached
    errorLogged,    \* Logger.log(`Error syncing codebase`) was called
    fileTree,       \* the files on disk: name -> content, per directory
    children,       \* MerkleTreeNode.children of the directory nodes, per build
    hashes,         \* MerkleTreeNode.calculatedHash of the nodes, per build
    modified,       \* the file written between two builds, and after which build
    disk,           \* the walked file system: entries, ignore files, unreadable files
    clock,          \* Date.now() of the walker, in units of ten seconds
    dirListCache,   \* walkDirCache.dirListCache: directory -> cached listing promise
    dirIgnoreCache, \* walkDirCache.dirIgnoreCache: directory -> cached ignore predicate
    listings,       \* the listDir promises created so far
    epoch,          \* the number of walkDirCache.invalidate() calls so far
    walkers,        \* the MerkleTreeWalker instances and their buildTree call
    secrets,        \* context.secrets: the value stored under ENCRYPTION_KEY_NAME
    randomCalls,    \* the randomBytes(32) calls made so far
    obfuscators     \* the PathObfuscator instances

storeVars == <<now, codebaseKeys, syncStatuses, createCalls>>
unitVars == <<ws, gen>>
idxVars == <<initialized, syncLocked, services, repoBranches, listening, debounce,
             head, calls, dirCache, errorLogged>>
treeVars == <<fileTree, children, hashes, modified>>
walkVars == <<disk, clock, dirListCache, dirIgnoreCache, listings, epoch, walkers>>
merkleVars == <<treeVars, walkVars>>
obfVars == <<secrets, randomCalls, obfuscators>>
vars == <<storeVars, unitVars, idxVars, merkleVars, obfVars>>

(* --------------------------- MerkleTreeNode ----------------------------- *)
\* Strings are sequences of code points. The alphabet is the least one that
\* has a canonical equivalence: a precomposed letter and its decomposition.
LetterA == 1          \* "a"
CombiningAcute == 2   \* U+0301
LetterAAcute == 3     \* U+00E1, canonically equivalent to "a" U+0301
LetterD == 4          \* "d"
Slash == 0            \* "/"
Names == {<<LetterA>>, <<LetterAAcute>>, <<LetterA, CombiningAcute>>}
\* joinPathsToUri
Join(dir, name) == dir \o <<Slash>> \o name
RootPath == <<Slash, LetterD>>
SubPath == Join(RootPath, <<LetterD>>)
Contents == {"none", "text", "binary"}
Builds == 1..NumBuilds

\* canonical decomposition of a string
RECURSIVE Decompose(_)
Decompose(s) ==
    IF s = <<>> THEN <<>>
    ELSE (IF Head(s) = LetterAAcute THEN <<LetterA, CombiningAcute>> ELSE <<Head(s)>>)
         \o Decompose(Tail(s))

RECURSIVE CompareCodePoints(_, _)
CompareCodePoints(a, b) ==
    IF a = <<>> /\ b = <<>> THEN 0
    ELSE IF a = <<>> THEN -1
    ELSE IF b = <<>> THEN 1
    ELSE IF Head(a) < Head(b) THEN -1
    ELSE IF Head(a) > Head(b) THEN 1
    ELSE CompareCodePoints(Tail(a), Tail(b))

\* String.prototype.localeCompare: a total preorder that is 0 for strings
\* that are canonically equivalent
localeCompare(a, b) == CompareCodePoints(Decompose(a), Decompose(b))

\* the first index of sorted whose node is ordered after x, Len + 1 if none
RECURSIVE FirstAfter(_, _, _)
FirstAfter(sorted, x, i) ==
    IF i > Len(sorted) THEN i
    ELSE IF localeCompare(sorted[i].path, x.path) > 0 THEN i
    ELSE FirstAfter(sorted, x, i + 1)

InsertSorted(sorted, x) ==
    LET i == FirstAfter(sorted, x, 1)
    IN SubSeq(sorted, 1, i - 1) \o <<x>> \o SubSeq(sorted, i, Len(sorted))

\* this.children.sort((a, b) => a.path.localeCompare(b.path)): Array.sort is
\* stable, nodes that compare 0 keep their insertion order
RECURSIVE SortChildren(_)
SortChildren(nodes) ==
    IF nodes = <<>> THEN <<>>
    ELSE InsertSorted(SortChildren(SubSeq(nodes, 1, Len(nodes) - 1)), nodes[Len(nodes)])

\* createHash('sha256')...digest('hex'): collision-free, the digest stands
\* for the stream that was hashed
Sha256(stream) == <<stream>>

FileHashIgnoringContent(content) ==
    IF content = "binary" THEN <<>> ELSE Sha256(<<[path |-> <<>>, hash |-> <<>>, data |-> "none"]>>)

\* generateFileHash: null (here << >>) for a binary file and for a file
\* whose read throws
generateFileHash(content) ==
    IF content \in {"binary", "unreadable"} THEN <<>> ELSE Sha256(<<[path |-> <<>>, hash |-> <<>>, data |-> content]>>)

RECURSIVE FoldExcludedToo(_, _)
FoldExcludedToo(nodes, hashOf) ==
    IF nodes = <<>> THEN <<>>
    ELSE <<[path |-> Head(nodes).path, hash |-> hashOf[Head(nodes).path], data |-> "none"]>>
         \o FoldExcludedToo(Tail(nodes), hashOf)

\* the stream a directory node feeds to its hasher: its path, then path and
\* hash of every child that is not excluded, in the order of the children
RECURSIVE FoldChildren(_, _)
FoldChildren(nodes, hashOf) ==
    IF nodes = <<>> THEN <<>>
    ELSE (IF hashOf[Head(nodes).path] = <<>> THEN <<>>
          ELSE <<[path |-> Head(nodes).path, hash |-> hashOf[Head(nodes).path], data |-> "none"]>>)
         \o FoldChildren(Tail(nodes), hashOf)

DirectoryHash(path, sortedChildren, hashOf) ==
    Sha256(<<[path |-> path, hash |-> <<>>, data |-> "none"]>> \o FoldChildren(sortedChildren, hashOf))

EmptyTree == [root |-> [n \in Names |-> "none"], hasSub |-> FALSE,
              sub |-> [n \in Names |-> "none"]]

(* --------------------------- MerkleTreeWalker --------------------------- *)
\* A relative path is the sequence of its segments; << >> is the walked root.
Walkers == 1..NumWalkers
Last(p) == p[Len(p)]
Front(p) == SubSeq(p, 1, Len(p) - 1)

SrcDir == <<"src">>
ModulesDir == <<"node_modules">>
IndexTs == <<"src", "index.ts">>
UtilsTs == <<"src", "utils.ts">>
LogoSvg == <<"src", "logo.svg">>
HelperJs == <<"node_modules", "helper.js">>
PackageJson == <<"package.json">>
EntryPaths == {SrcDir, ModulesDir, IndexTs, UtilsTs, LogoSvg, HelperJs, PackageJson}
Dirs == {<<>>, SrcDir, ModulesDir}

\* A rule of an ignore file: a pattern without "/" matches the last segment
\* of a path at any depth, a pattern with "/" matches the path from the
\* directory of the ignore file; "!" negates.
Pattern(neg, anchored, path, names) ==
    [neg |-> neg, anchored |-> anchored, path |-> path, names |-> names]
StarTs == Pattern(FALSE, FALSE, <<>>, {"index.ts", "utils.ts"})       \* *.ts
StarSvg == Pattern(FALSE, FALSE, <<>>, {"logo.svg"})                  \* *.svg
NodeModules == Pattern(FALSE, FALSE, <<>>, {"node_modules"})          \* node_modules
NotSrcIndexTs == Pattern(TRUE, TRUE, IndexTs, {})                     \* !src/index.ts
NotSrcLogoSvg == Pattern(TRUE, TRUE, LogoSvg, {})                     \* !src/logo.svg
NotLogoSvg == Pattern(TRUE, FALSE, <<>>, {"logo.svg"})                \* !logo.svg
NotIndexTs == Pattern(TRUE, FALSE, <<>>, {"index.ts"})                \* !index.ts
StarJson == Pattern(FALSE, FALSE, <<>>, {"package.json"})             \* *.json

\* ignoreDirsAndFiles: of the built-in exclusions, those that match an entry
ignoreDirsAndFiles == <<NodeModules, StarSvg>>

Matches(pattern, path) ==
    IF pattern.anchored THEN path = pattern.path ELSE Last(path) \in pattern.names

\* the rules are tested in order, the last rule that matches decides
RECURSIVE TestRules(_, _, _)
TestRules(rules, path, ignored) ==
    IF rules = <<>> THEN ignored
    ELSE TestRules(Tail(rules), path,
                   IF Matches(Head(rules), path) THEN ~Head(rules).neg ELSE ignored)

\* Ignore.ignores(path): a path below an ignored directory is ignored, no
\* rule re-includes it
RECURSIVE Ignores(_, _)
Ignores(rules, path) ==
    IF Len(path) > 1 /\ Ignores(rules, Front(path)) THEN TRUE
    ELSE TestRules(rules, path, FALSE)

\* getIgnoreContext: the rules of .gitignore, then the built-in ones, then
\* the rules of .posthogignore of the directory
getIgnoreContext(d, dir) ==
    [ignore |-> d.gitignore[dir] \o ignoreDirsAndFiles \o d.posthogignore[dir],
     dirname |-> dir]

\* the contexts of all directories, each applied from the root
IgnoreContextsOfAll(d, dir) ==
    <<[ignore |-> getIgnoreContext(d, <<>>).ignore, dirname |-> <<>>],
      [ignore |-> getIgnoreContext(d, SrcDir).ignore, dirname |-> <<>>],
      [ignore |-> getIgnoreContext(d, ModulesDir).ignore, dirname |-> <<>>]>>

\* the contexts of the directories from the root down to dir
RECURSIVE IgnoreContexts(_, _)
IgnoreContexts(d, dir) ==
    (IF dir = <<>> THEN <<>> ELSE IgnoreContexts(d, Front(dir)))
        \o <<getIgnoreContext(d, dir)>>

\* isPathIgnored: some context ignores the path taken from its directory
isPathIgnored(path, ignoreContexts) ==
    \E i \in DOMAIN ignoreContexts :
        Ignores(ignoreContexts[i].ignore,
                SubSeq(path, Len(ignoreContexts[i].dirname) + 1, Len(path)))

\* listDir: the entries of a directory
ListDir(d, dir) == {p \in DOMAIN d.entries : Front(p) = dir}

\* a new MerkleTreeWalker: the directories to visit, the directory whose
\* entries are awaited and their promise, the number of nodes created for
\* each entry, timings.listDirCacheHits, the listDir calls made, the time
\* of the buildTree call, the builds that had ended and the invalidations
\* made by then, and the files buildHashes excluded
IdleWalker == [pc |-> "idle", stack |-> {}, cur |-> <<>>, awaits |-> 0,
               pushed |-> [p \in EntryPaths |-> 0], hits |-> 0, cold |-> 0,
               started |-> 0, after |-> {}, epoch |-> 0, excluded |-> {}]

NoDisk == [entries |-> <<>>, gitignore |-> [dir \in Dirs |-> <<>>],
           posthogignore |-> [dir \in Dirs |-> <<>>], unreadable |-> {},
           content |-> "text"]

\* ENCRYPTION_KEY_NAME is not in the secret storage: secrets.get gives undefined
NoKey == 0
Obfuscators == 1..NumObfuscators

\* a PathObfuscator that is not constructed yet: the position of init(),
\* newKey, encryptionKey, and the path given to obfuscatePath with the
\* results of obfuscatePath and revealPath
IdleObfuscator == [pc |-> "absent", newKey |-> NoKey, encryptionKey |-> NoKey,
                   stage |-> "none", path |-> <<>>, obfuscated |-> <<>>, revealed |-> <<>>]

\* no PathObfuscator is constructed
NoObfuscator ==
    /\ secrets = NoKey
    /\ randomCalls = 0
    /\ obfuscators = [o \in Obfuscators |-> IdleObfuscator]

\* no tree is being walked
NoWalk ==
    /\ disk = NoDisk
    /\ clock = 0
    /\ dirListCache = <<>>
    /\ dirIgnoreCache = <<>>
    /\ listings = <<>>
    /\ epoch = 0
    /\ walkers = [w \in Walkers |-> IdleWalker]

\* no file was written
NoWrite == [path |-> <<>>, after |-> 0]

\* no tree is being built
NoTree ==
    /\ fileTree = EmptyTree
    /\ children = [b \in Builds |-> [root |-> <<>>, sub |-> <<>>]]
    /\ hashes = [b \in Builds |-> <<>>]
    /\ modified = NoWrite
    /\ NoWalk

(* --------------------------- workspaceState ---------------------------- *)
\* Memento.get: undefined (here NullId) for a key that was never stored
GetCodebaseId(path) ==
    IF path \in DOMAIN codebaseKeys THEN codebaseKeys[path] ELSE NullId

\* Memento.update(key, value): update(key, undefined) removes the key
UpdateKey(store, key, value) ==
    IF value = NullId
    THEN [k \in DOMAIN store \ {key} |-> store[k]]
    ELSE [k \in DOMAIN store \cup {key} |-> IF k = key THEN value ELSE store[k]]

PutStatusDropped(store, key, value) == store

\* Memento.update(this.lastSyncKey, syncStatus)
PutStatus(store, key, value) ==
    [k \in DOMAIN store \cup {key} |-> IF k = key THEN value ELSE store[k]]

(* ---------------------------- WorkspaceSync ---------------------------- *)
NoClient == [pc |-> "absent", workspacePath |-> 1, branchHash |-> "",
             codebaseId |-> NullId, pendingId |-> NullId, failed |-> FALSE]

\* constructor
NewWorkspaceSync(path, branch) ==
    [pc |-> "new", workspacePath |-> path, branchHash |-> branch,
     codebaseId |-> NullId, pendingId |-> NullId, failed |-> FALSE]

NoStatus == [synced |-> TRUE, diverging_files |-> <<>>]
IdleGen == [pc |-> "idle", client |-> 1, force |-> FALSE, built |-> FALSE, checked |-> FALSE,
            wrote |-> FALSE, leaf |-> {}, status |-> NoStatus, yielded |-> <<>>]

\* get lastSyncKey: `codebase_${this.codebaseId}_sync_status`
lastSyncKey(c) == c.codebaseId

HasLastSyncStatus(c) == lastSyncKey(c) \in DOMAIN syncStatuses
lastSyncStatus(c) == syncStatuses[lastSyncKey(c)]

canSyncIgnoresBranch(c) ==
    IF c.codebaseId = NullId THEN FALSE
    ELSE IF ~HasLastSyncStatus(c) THEN TRUE
    ELSE lastSyncStatus(c).ts < now - TenMinutes

canSyncInclusiveWindow(c) ==
    IF c.codebaseId = NullId THEN FALSE
    ELSE IF ~HasLastSyncStatus(c) THEN TRUE
    ELSE lastSyncStatus(c).ts <= now - TenMinutes
         \/ lastSyncStatus(c).hash # c.branchHash

\* private get canSync
canSync(c) ==
    IF c.codebaseId = NullId THEN FALSE
    ELSE IF ~HasLastSyncStatus(c) THEN TRUE
    ELSE lastSyncStatus(c).ts < now - TenMinutes
         \/ lastSyncStatus(c).hash # c.branchHash

ThrottledIgnoringForce(c, forceIndex) == ~canSync(c)

\* the guard of retrieveDivergingFiles: TRUE when the generator returns at once
Throttled(c, forceIndex) == ~canSync(c) /\ ~forceIndex

DivergingNodesUnfiltered(leaf, status) ==
    IF status.synced THEN <<>> ELSE status.diverging_files

\* the loop over status.diverging_files with the hashToNodeMap lookup
DivergingNodes(leaf, status) ==
    IF status.synced THEN <<>>
    ELSE SelectSeq(status.diverging_files, LAMBDA h : h \in leaf)

ResponsesUpTo(n) ==
    [synced : BOOLEAN, diverging_files : SeqsUpTo(Hashes, n)]
Responses == ResponsesUpTo(MaxDiverging)

(* init(): the synchronous part up to the first await *)
WorkspaceSyncInit(i) ==
    /\ ws[i].pc = "new"
    /\ LET id == GetCodebaseId(ws[i].workspacePath) IN
       IF id # NullId
       THEN /\ ws' = [ws EXCEPT ![i].codebaseId = id, ![i].pc = "ready"]
            /\ UNCHANGED createCalls
       ELSE /\ createCalls < MaxCreate
            /\ createCalls' = createCalls + 1
            /\ ws' = [ws EXCEPT ![i].pc = "creating", ![i].pendingId = createCalls + 1]
    /\ UNCHANGED <<idxVars, merkleVars, obfVars>>
    /\ UNCHANGED <<now, codebaseKeys, syncStatuses, gen>>

(* createCodebase() resolves: data.id is the new id, or undefined when the *)
(* body is an error document; workspaceState.update is called with it      *)
CreateCodebaseResolves(i, hasId) ==
    /\ ws[i].pc = "creating"
    /\ LET id == IF hasId THEN ws[i].pendingId ELSE NullId IN
       /\ codebaseKeys' = UpdateKey(codebaseKeys, ws[i].workspacePath, id)
       /\ ws' = [ws EXCEPT ![i].pc = "updating", ![i].pendingId = id]
    /\ UNCHANGED <<idxVars, merkleVars, obfVars>>
    /\ UNCHANGED <<now, syncStatuses, createCalls, gen>>

(* createCodebase() rejects: the catch of init() logs *)
CreateCodebaseRejects(i) ==
    /\ ws[i].pc = "creating"
    /\ ws' = [ws EXCEPT ![i].pc = "ready", ![i].failed = TRUE, ![i].pendingId = NullId]
    /\ UNCHANGED <<idxVars, merkleVars, obfVars>>
    /\ UNCHANGED <<now, codebaseKeys, syncStatuses, createCalls, gen>>

(* createCodebase() resolves but workspaceState.update rejects without     *)
(* storing: the catch of init() logs                                        *)
UpdateRejects(i) ==
    /\ ws[i].pc = "creating"
    /\ ws' = [ws EXCEPT ![i].pc = "ready", ![i].failed = TRUE, ![i].pendingId = NullId]
    /\ UNCHANGED <<idxVars, merkleVars, obfVars>>
    /\ UNCHANGED <<now, codebaseKeys, syncStatuses, createCalls, gen>>

(* the awaited update resolves: this.codebaseId = codebaseId *)
UpdateResolves(i) ==
    /\ ws[i].pc = "updating"
    /\ ws' = [ws EXCEPT ![i].pc = "ready", ![i].codebaseId = ws[i].pendingId,
                        ![i].pendingId = NullId]
    /\ UNCHANGED <<idxVars, merkleVars, obfVars>>
    /\ UNCHANGED <<now, codebaseKeys, syncStatuses, createCalls, gen>>

(* retrieveDivergingFiles(forceIndex): up to the await of buildTree *)
RetrieveDivergingFiles(i, forceIndex) ==
    /\ ws[i].pc = "ready"
    /\ gen.pc \in {"idle", "done", "failed"}
    /\ gen' = IF Throttled(ws[i], forceIndex)
              THEN [IdleGen EXCEPT !.pc = "done", !.client = i, !.force = forceIndex]
              ELSE [IdleGen EXCEPT !.pc = "building", !.client = i, !.force = forceIndex]
    /\ UNCHANGED <<idxVars, merkleVars, obfVars>>
    /\ UNCHANGED <<now, codebaseKeys, syncStatuses, createCalls, ws>>

(* buildTree() resolves with the tree; checkSyncedCodebase sends the PATCH *)
BuildTreeResolves(leaf) ==
    /\ gen.pc = "building"
    /\ gen' = [gen EXCEPT !.pc = "checking", !.built = TRUE, !.leaf = leaf, !.checked = TRUE]
    /\ UNCHANGED <<idxVars, merkleVars, obfVars>>
    /\ UNCHANGED <<now, codebaseKeys, syncStatuses, createCalls, ws>>

BuildTreeRejects ==
    /\ gen.pc = "building"
    /\ gen' = [gen EXCEPT !.pc = "failed"]
    /\ UNCHANGED <<idxVars, merkleVars, obfVars>>
    /\ UNCHANGED <<now, codebaseKeys, syncStatuses, createCalls, ws>>

(* the diff check answers: the sync status is stored, then awaited *)
CheckSyncedCodebaseResolves(status) ==
    /\ gen.pc = "checking"
    /\ syncStatuses' = PutStatus(syncStatuses, lastSyncKey(ws[gen.client]),
                                 [hash |-> ws[gen.client].branchHash, ts |-> now])
    /\ gen' = [gen EXCEPT !.pc = "persisting", !.status = status, !.wrote = TRUE]
    /\ UNCHANGED <<idxVars, merkleVars, obfVars>>
    /\ UNCHANGED <<now, codebaseKeys, createCalls, ws>>

CheckSyncedCodebaseRejects ==
    /\ gen.pc = "checking"
    /\ gen' = [gen EXCEPT !.pc = "failed", !.leaf = {}]
    /\ UNCHANGED <<idxVars, merkleVars, obfVars>>
    /\ UNCHANGED <<now, codebaseKeys, syncStatuses, createCalls, ws>>

(* after the update: return when synced, else yield the local nodes *)
YieldDivergingFiles ==
    /\ gen.pc = "persisting"
    /\ gen' = [gen EXCEPT !.pc = "done",
                          !.yielded = DivergingNodes(gen.leaf, gen.status)]
    /\ UNCHANGED <<idxVars, merkleVars, obfVars>>
    /\ UNCHANGED <<now, codebaseKeys, syncStatuses, createCalls, ws>>

(* the caller constructs an instance *)
Construct(i, path, branch) ==
    /\ ws[i].pc = "absent"
    /\ ws' = [ws EXCEPT ![i] = NewWorkspaceSync(path, branch)]
    /\ UNCHANGED <<idxVars, merkleVars, obfVars>>
    /\ UNCHANGED <<now, codebaseKeys, syncStatuses, createCalls, gen>>

Tick ==
    /\ now < MaxNow
    /\ now' = now + 1
    /\ UNCHANGED <<idxVars, merkleVars, obfVars>>
    /\ UNCHANGED <<codebaseKeys, syncStatuses, createCalls, ws, gen>>

(* storage left by earlier sessions: ids and a sync status per stored id *)
InitStores ==
    /\ \E D \in SUBSET Roots : codebaseKeys = [r \in D |-> -r]
    /\ syncStatuses \in UNION {[D -> [hash : {"c1"}, ts : {0}]] :
                                 D \in SUBSET {codebaseKeys[r] : r \in DOMAIN codebaseKeys}}

InitUnit ==
    /\ ws = [i \in Clients |-> NoClient]
    /\ gen = IdleGen

(* --------------------------- CodebaseIndexer --------------------------- *)
EmptyMap == [x \in {} |-> x]

NoCall == [pc |-> "free", after |-> "sync", force |-> FALSE, mk |-> EmptyMap,
           svcs |-> <<>>, disc |-> <<>>, files |-> <<>>, tasks |-> <<>>,
           started |-> 0, running |-> FALSE, zombies |-> 0,
           retryMapping |-> EmptyMap, processedCount |-> 0, fileCount |-> 0]

InitIndexer ==
    /\ initialized = FALSE
    /\ syncLocked = FALSE
    /\ services = EmptyMap
    /\ repoBranches = EmptyMap
    /\ listening = "none"
    /\ debounce = 0
    /\ head = [r \in Repos |-> "c1"]
    /\ calls = [c \in Calls |-> NoCall]
    /\ dirCache = {}
    /\ errorLogged = FALSE

\* branches.get(workspaceDir.toString()) || ''
BranchOf(branches, r) == IF r \in DOMAIN branches THEN branches[r] ELSE ""

\* the roots, in order, for which init() has to call createCodebase
Keyless == {r \in Roots : r \notin DOMAIN codebaseKeys}
Rank(r) == Cardinality({q \in Keyless : q <= r})

\* createWorkspaceSyncServices up to the await of Promise.all: every instance
\* is constructed and its init() runs to its first await
StartedServices(branches) ==
    [r \in Roots |->
        IF r \in Keyless
        THEN [NewWorkspaceSync(r, BranchOf(branches, r)) EXCEPT
                 !.pc = "creating", !.pendingId = createCalls + Rank(r)]
        ELSE [NewWorkspaceSync(r, BranchOf(branches, r)) EXCEPT
                 !.pc = "ready", !.codebaseId = codebaseKeys[r]]]

\* an invocation takes the lowest free slot of the bookkeeping
FirstFree(c) ==
    /\ calls[c].pc = "free"
    /\ \A d \in Calls : d < c => calls[d].pc # "free"

\* createWorkspaceSyncServices is entered (from init or from recreate, where
\* invalidateCaches precedes it)
StartCreating(c, then, branches) ==
    /\ createCalls + Cardinality(Keyless) <= MaxCreate
    /\ createCalls' = createCalls + Cardinality(Keyless)
    /\ calls' = [calls EXCEPT ![c] = [NoCall EXCEPT !.pc = "creating", !.after = then,
                                                     !.mk = StartedServices(branches)]]

\* Array.from(this.workspaceSyncServices.values())
SeqOfMap(m) == [k \in 1..Cardinality(DOMAIN m) |->
                  m[CHOOSE r \in DOMAIN m : Cardinality({q \in DOMAIN m : q <= r}) = k]]

LockedNever == FALSE
\* if (this.syncLocked) return
Locked == syncLocked

\* the cycle of traverseWorkspaces at the await of Promise.all: every
\* generator has run to its first await, or has returned when throttled
TraverseCall(svcMap, forceIndex) ==
    LET sv == SeqOfMap(svcMap) IN
    [NoCall EXCEPT !.pc = "discover", !.force = forceIndex, !.svcs = sv,
       !.disc = [k \in 1..Len(sv) |->
                  IF Throttled(sv[k], forceIndex) THEN "done" ELSE "pending"],
       !.files = [k \in 1..Len(sv) |-> <<>>]]

\* traverseWorkspaces up to that await: return when locked, else take the lock
StartTraverse(c, svcMap, forceIndex) ==
    IF Locked
    THEN /\ calls' = [calls EXCEPT ![c] = NoCall]
         /\ UNCHANGED syncLocked
    ELSE /\ syncLocked' = TRUE
         /\ calls' = [calls EXCEPT ![c] = TraverseCall(svcMap, forceIndex)]

(* init(): the file listeners are registered, then getGitExtension is awaited *)
IndexerInit ==
    /\ listening = "none"
    /\ listening' = "files"
    /\ UNCHANGED <<initialized, syncLocked, services, repoBranches, debounce, head,
                   calls, errorLogged>>
    /\ UNCHANGED <<storeVars, unitVars, merkleVars, obfVars>>
    /\ UNCHANGED dirCache

(* init(): initGit records every HEAD commit and registers the repository   *)
(* listeners; createWorkspaceSyncServices starts                            *)
InitGit(c) ==
    /\ listening = "files"
    /\ FirstFree(c)
    /\ listening' = "all"
    /\ repoBranches' = [r \in Repos |-> head[r]]
    /\ StartCreating(c, "init", [r \in Repos |-> head[r]])
    /\ UNCHANGED <<initialized, syncLocked, services, debounce, head, errorLogged>>
    /\ UNCHANGED <<now, codebaseKeys, syncStatuses, unitVars, merkleVars, obfVars>>
    /\ UNCHANGED dirCache

\* invalidateCaches(): walkDirCache.invalidate() clears both maps
invalidateCaches(cache) == {}

(* sync(forceIndex) as a listener calls it, on the directory cache the       *)
(* listener leaves; recreateWorkspaceSyncServices invalidates the cache      *)
Sync(c, forceIndex, cache) ==
    /\ FirstFree(c)
    /\ IF ~initialized
       THEN /\ StartCreating(c, "sync", repoBranches)
            /\ initialized' = FALSE
            /\ dirCache' = invalidateCaches(cache)
            /\ UNCHANGED syncLocked
       ELSE /\ StartTraverse(c, services, forceIndex)
            /\ dirCache' = cache
            /\ UNCHANGED <<initialized, createCalls>>

(* onDidSaveTextDocument *)
SaveTextDocument(c) ==
    /\ listening # "none"
    /\ Sync(c, FALSE, dirCache)
    /\ UNCHANGED <<services, repoBranches, listening, debounce, head, errorLogged>>
    /\ UNCHANGED <<now, codebaseKeys, syncStatuses, unitVars, merkleVars, obfVars>>

(* onDidCreateFiles / onDidDeleteFiles: invalidateAndReindex *)
CreateOrDeleteFiles(c) ==
    /\ listening # "none"
    /\ Sync(c, FALSE, invalidateCaches(dirCache))
    /\ UNCHANGED <<services, repoBranches, listening, debounce, head, errorLogged>>
    /\ UNCHANGED <<now, codebaseKeys, syncStatuses, unitVars, merkleVars, obfVars>>

pDebounceStacked(pending) == pending + 1

\* a call of the function pDebounce(fn, 5000) returns: the pending timer is
\* cleared and a new one is set
pDebounce(pending) == 1

\* the handler without the comparison of the commits
RepoStateChangeUncompared(r, commit) ==
    /\ listening = "all"
    /\ head' = [head EXCEPT ![r] = commit]
    /\ repoBranches' = [q \in DOMAIN repoBranches \cup {r} |->
                          IF q = r THEN commit ELSE repoBranches[q]]
    /\ debounce' = pDebounce(debounce)
    /\ UNCHANGED <<initialized, syncLocked, services, listening, calls, errorLogged>>
    /\ UNCHANGED <<storeVars, unitVars, merkleVars, obfVars>>
    /\ UNCHANGED dirCache

(* repo.state.onDidChange: the repository reports a state change while its  *)
(* HEAD is at commit, which may be the commit it was at before              *)
RepoStateChange(r, commit) ==
    /\ listening = "all"
    /\ head' = [head EXCEPT ![r] = commit]
    /\ IF commit # BranchOf(repoBranches, r)
       THEN /\ repoBranches' = [q \in DOMAIN repoBranches \cup {r} |->
                                  IF q = r THEN commit ELSE repoBranches[q]]
            /\ debounce' = pDebounce(debounce)
       ELSE UNCHANGED <<repoBranches, debounce>>
    /\ UNCHANGED <<initialized, syncLocked, services, listening, calls, errorLogged>>
    /\ UNCHANGED <<storeVars, unitVars, merkleVars, obfVars>>
    /\ UNCHANGED dirCache

(* the debounce timer expires: recreateWorkspaceSyncServices, then sync *)
DebouncedSync(c) ==
    /\ debounce > 0
    /\ FirstFree(c)
    /\ debounce' = debounce - 1
    /\ initialized' = FALSE
    /\ dirCache' = invalidateCaches(dirCache)
    /\ StartCreating(c, "sync", repoBranches)
    /\ UNCHANGED <<syncLocked, services, repoBranches, listening, head, errorLogged>>
    /\ UNCHANGED <<now, codebaseKeys, syncStatuses, unitVars, merkleVars, obfVars>>

(* createCodebase() of one instance resolves; the id is stored and kept *)
ServiceCreated(c, r, hasId) ==
    /\ calls[c].pc = "creating"
    /\ calls[c].mk[r].pc = "creating"
    /\ LET id == IF hasId THEN calls[c].mk[r].pendingId ELSE NullId IN
       /\ codebaseKeys' = UpdateKey(codebaseKeys, r, id)
       /\ calls' = [calls EXCEPT ![c].mk[r] =
                      [@ EXCEPT !.pc = "ready", !.codebaseId = id, !.pendingId = NullId]]
    /\ UNCHANGED <<now, syncStatuses, createCalls, unitVars, merkleVars, obfVars>>
    /\ UNCHANGED <<initialized, syncLocked, services, repoBranches, listening, debounce,
                   head, errorLogged>>
    /\ UNCHANGED dirCache

(* createCodebase() of one instance rejects: its init() logs and returns *)
ServiceCreateFails(c, r) ==
    /\ calls[c].pc = "creating"
    /\ calls[c].mk[r].pc = "creating"
    /\ calls' = [calls EXCEPT ![c].mk[r] =
                   [@ EXCEPT !.pc = "ready", !.failed = TRUE, !.pendingId = NullId]]
    /\ UNCHANGED <<storeVars, unitVars, merkleVars, obfVars>>
    /\ UNCHANGED <<initialized, syncLocked, services, repoBranches, listening, debounce,
                   head, errorLogged>>
    /\ UNCHANGED dirCache

(* Promise.all of the init() calls resolves: the map is replaced; after     *)
(* recreate, initialized is set and sync goes on to traverseWorkspaces;     *)
(* after init()'s own creation, this.sync() is called                       *)
ServicesCreated(c) ==
    /\ calls[c].pc = "creating"
    /\ \A r \in Roots : calls[c].mk[r].pc = "ready"
    /\ services' = calls[c].mk
    /\ IF calls[c].after = "init" /\ ~initialized
       THEN /\ StartCreating(c, "initsync", repoBranches)
            /\ initialized' = FALSE
            /\ dirCache' = invalidateCaches(dirCache)
            /\ UNCHANGED syncLocked
       ELSE /\ initialized' = (IF calls[c].after = "init" THEN initialized ELSE TRUE)
            /\ StartTraverse(c, calls[c].mk, FALSE)
            /\ UNCHANGED <<createCalls, dirCache>>
    /\ UNCHANGED <<repoBranches, listening, debounce, head, errorLogged>>
    /\ UNCHANGED <<now, codebaseKeys, syncStatuses, unitVars, merkleVars, obfVars>>

\* the generators of a cycle whose Promise.all has rejected run on; the
\* bookkeeping of the cycle ends with the last of them
Settled(call) ==
    IF call.pc = "aborted" /\ \A k \in DOMAIN call.disc : call.disc[k] = "done"
    THEN NoCall
    ELSE call

(* one generator of the cycle finishes: tree built, diff check answered,    *)
(* sync status stored, the local diverging files yielded and collected      *)
DiscoverResolves(c, k, leaf, status) ==
    /\ calls[c].pc \in {"discover", "aborted"}
    /\ calls[c].disc[k] = "pending"
    /\ syncStatuses' = PutStatus(syncStatuses, lastSyncKey(calls[c].svcs[k]),
                                 [hash |-> calls[c].svcs[k].branchHash, ts |-> now])
    /\ calls' = [calls EXCEPT ![c] =
                   Settled([calls[c] EXCEPT !.disc[k] = "done",
                                            !.files[k] = DivergingNodes(leaf, status)])]
    /\ dirCache' = dirCache \cup {calls[c].svcs[k].workspacePath}
    /\ UNCHANGED <<now, codebaseKeys, createCalls, unitVars, merkleVars, obfVars>>
    /\ UNCHANGED <<initialized, syncLocked, services, repoBranches, listening, debounce,
                   head, errorLogged>>

SyncRethrows == FALSE
\* the try / catch of sync() around traverseWorkspaces
SyncCatches == TRUE

(* buildTree or the diff check of one generator rejects: Promise.all        *)
(* rejects, traverseWorkspaces throws and sync() logs the error; a later    *)
(* rejection of the same Promise.all is ignored; the walk may have listed   *)
(* directories before                                                       *)
DiscoverRejects(c, k, listed) ==
    /\ calls[c].pc \in {"discover", "aborted"}
    /\ calls[c].disc[k] = "pending"
    /\ dirCache' = IF listed THEN dirCache \cup {calls[c].svcs[k].workspacePath}
                   ELSE dirCache
    /\ IF calls[c].pc = "aborted"
       THEN /\ calls' = [calls EXCEPT ![c] = Settled([calls[c] EXCEPT !.disc[k] = "done"])]
            /\ UNCHANGED errorLogged
       ELSE IF SyncCatches
       THEN /\ errorLogged' = TRUE
            /\ calls' = [calls EXCEPT ![c] =
                           Settled([calls[c] EXCEPT !.pc = "aborted", !.disc[k] = "done",
                                      !.files = [j \in DOMAIN calls[c].files |-> <<>>]])]
       ELSE /\ calls' = [calls EXCEPT ![c] = [NoCall EXCEPT !.pc = "threw"]]
            /\ UNCHANGED errorLogged
    /\ UNCHANGED <<storeVars, unitVars, merkleVars, obfVars>>
    /\ UNCHANGED <<initialized, syncLocked, services, repoBranches, listening, debounce,
                   head>>

RECURSIVE Flatten(_)
Flatten(ss) == IF ss = <<>> THEN <<>> ELSE Head(ss) \o Flatten(Tail(ss))

(* Promise.all resolves: fileCount; without files the lock is released,     *)
(* else every file is added to fileSyncQueue and sync() returns             *)
CollectDivergingFiles(c) ==
    /\ calls[c].pc = "discover"
    /\ \A k \in DOMAIN calls[c].disc : calls[c].disc[k] = "done"
    /\ LET all == Flatten(calls[c].files) IN
       IF Len(all) = 0
       THEN /\ syncLocked' = FALSE
            /\ calls' = [calls EXCEPT ![c] = NoCall]
       ELSE /\ calls' = [calls EXCEPT ![c] =
                           [NoCall EXCEPT !.pc = "upload", !.tasks = all,
                                          !.files = calls[c].files,
                                          !.fileCount = Len(all)]]
            /\ UNCHANGED syncLocked
    /\ UNCHANGED <<storeVars, unitVars, merkleVars, obfVars>>
    /\ UNCHANGED <<initialized, services, repoBranches, listening, debounce, head,
                   errorLogged>>
    /\ UNCHANGED dirCache

\* retryMapping.get(file.hash)
Retries(call, h) ==
    IF h \in DOMAIN call.retryMapping THEN call.retryMapping[h] ELSE 0

\* the .catch handler of one task
CatchUpload(call, h) ==
    IF Retries(call, h) >= MaxRetries
    THEN [call EXCEPT !.processedCount = @ + 1]
    ELSE [call EXCEPT !.retryMapping =
            [x \in DOMAIN call.retryMapping \cup {h} |->
                IF x = h THEN Retries(call, h) + 1 ELSE call.retryMapping[x]]]

\* fileSyncQueue.onIdle() resolves when no task is queued or pending: the
\* lock is released; bodies of timed-out tasks may still be running
AfterSettle(c, call) ==
    IF call.pc = "upload" /\ call.started = Len(call.tasks) /\ ~call.running
    THEN /\ syncLocked' = FALSE
         /\ calls' = [calls EXCEPT ![c] =
                        IF call.zombies = 0 THEN NoCall
                        ELSE [NoCall EXCEPT !.pc = "lingering", !.zombies = call.zombies]]
    ELSE /\ calls' = [calls EXCEPT ![c] = call]
         /\ UNCHANGED syncLocked

(* the queue (concurrency 1) starts the next task *)
StartUpload(c) ==
    /\ calls[c].pc = "upload"
    /\ ~calls[c].running
    /\ calls[c].started < Len(calls[c].tasks)
    /\ calls' = [calls EXCEPT ![c].started = @ + 1, ![c].running = TRUE]
    /\ UNCHANGED <<storeVars, unitVars, merkleVars, obfVars>>
    /\ UNCHANGED <<initialized, syncLocked, services, repoBranches, listening, debounce,
                   head, errorLogged>>
    /\ UNCHANGED dirCache

(* read, obfuscatePath and uploadArtifact succeed (HTTP 202) *)
UploadSucceeds(c) ==
    /\ calls[c].pc = "upload"
    /\ calls[c].running
    /\ AfterSettle(c, [calls[c] EXCEPT !.running = FALSE, !.processedCount = @ + 1])
    /\ UNCHANGED <<storeVars, unitVars, merkleVars, obfVars>>
    /\ UNCHANGED <<initialized, services, repoBranches, listening, debounce, head,
                   errorLogged>>
    /\ UNCHANGED dirCache

(* the task rejects: read error, non-202 answer or network error *)
UploadFails(c) ==
    /\ calls[c].pc = "upload"
    /\ calls[c].running
    /\ AfterSettle(c, CatchUpload([calls[c] EXCEPT !.running = FALSE],
                                  calls[c].tasks[calls[c].started]))
    /\ UNCHANGED <<storeVars, unitVars, merkleVars, obfVars>>
    /\ UNCHANGED <<initialized, services, repoBranches, listening, debounce, head,
                   errorLogged>>
    /\ UNCHANGED dirCache

(* the 30 s timeout of the queue rejects the task; its body keeps running *)
UploadTimesOut(c) ==
    /\ calls[c].pc = "upload"
    /\ calls[c].running
    /\ AfterSettle(c, CatchUpload([calls[c] EXCEPT !.running = FALSE, !.zombies = @ + 1],
                                  calls[c].tasks[calls[c].started]))
    /\ UNCHANGED <<storeVars, unitVars, merkleVars, obfVars>>
    /\ UNCHANGED <<initialized, services, repoBranches, listening, debounce, head,
                   errorLogged>>
    /\ UNCHANGED dirCache

(* the body of a timed-out task ends: on success it counts the file *)
LateUploadEnds(c, ok) ==
    /\ calls[c].pc \in {"upload", "lingering"}
    /\ calls[c].zombies > 0
    /\ calls' = [calls EXCEPT ![c] =
         IF calls[c].pc = "lingering"
         THEN (IF calls[c].zombies = 1 THEN NoCall ELSE [calls[c] EXCEPT !.zombies = @ - 1])
         ELSE [calls[c] EXCEPT !.zombies = @ - 1,
                               !.processedCount = IF ok THEN @ + 1 ELSE @]]
    /\ UNCHANGED <<storeVars, unitVars, merkleVars, obfVars>>
    /\ UNCHANGED <<initialized, syncLocked, services, repoBranches, listening, debounce,
                   head, errorLogged>>
    /\ UNCHANGED dirCache

Init ==
    /\ now = 0
    /\ InitStores
    /\ createCalls = 0
    /\ InitUnit
    /\ NoTree
    /\ NoObfuscator
    /\ InitIndexer

(* the orchestrator with its triggers *)
Next ==
    \/ IndexerInit
    \/ \E c \in Calls : InitGit(c)
    \/ \E c \in Calls : SaveTextDocument(c)
    \/ \E c \in Calls : CreateOrDeleteFiles(c)
    \/ \E r \in Repos, h \in GitCommits : RepoStateChange(r, h)
    \/ \E c \in Calls : DebouncedSync(c)
    \/ \E c \in Calls, r \in Roots : ServiceCreated(c, r, TRUE)
    \/ \E c \in Calls, r \in Roots : ServiceCreateFails(c, r)
    \/ \E c \in Calls : ServicesCreated(c)
    \/ \E c \in Calls, k \in 1..NumRoots, leaf \in SUBSET Hashes,
          st \in ResponsesUpTo(MaxYield) : DiscoverResolves(c, k, leaf, st)
    \/ \E c \in Calls, k \in 1..NumRoots, listed \in BOOLEAN : DiscoverRejects(c, k, listed)
    \/ \E c \in Calls : CollectDivergingFiles(c)
    \/ \E c \in Calls : StartUpload(c)
    \/ \E c \in Calls : UploadSucceeds(c)
    \/ \E c \in Calls : UploadFails(c)
    \/ \E c \in Calls : UploadTimesOut(c)
    \/ \E c \in Calls, ok \in BOOLEAN : LateUploadEnds(c, ok)

Spec == Init /\ [][Next]_vars

(* one cycle in detail: every root has a stored id and a ready instance,    *)
(* traverseWorkspaces has taken the lock and awaits the generators          *)
ReadyServices ==
    [r \in Roots |-> [NewWorkspaceSync(r, "") EXCEPT !.pc = "ready", !.codebaseId = -r]]

InitUpload ==
    /\ now = 0
    /\ codebaseKeys = [r \in Roots |-> -r]
    /\ syncStatuses = EmptyMap
    /\ createCalls = 0
    /\ InitUnit
    /\ NoTree
    /\ NoObfuscator
    /\ initialized = TRUE
    /\ syncLocked = TRUE
    /\ services = ReadyServices
    /\ repoBranches = EmptyMap
    /\ listening = "all"
    /\ debounce = 0
    /\ head = [r \in Repos |-> "c1"]
    /\ calls = [c \in Calls |-> IF c = 1 THEN TraverseCall(ReadyServices, FALSE) ELSE NoCall]
    /\ dirCache = {}
    /\ errorLogged = FALSE

NextUpload ==
    \/ \E c \in Calls, k \in 1..NumRoots, leaf \in SUBSET Hashes,
          st \in Responses : DiscoverResolves(c, k, leaf, st)
    \/ \E c \in Calls, k \in 1..NumRoots, listed \in BOOLEAN : DiscoverRejects(c, k, listed)
    \/ \E c \in Calls : CollectDivergingFiles(c)
    \/ \E c \in Calls : StartUpload(c)
    \/ \E c \in Calls : UploadSucceeds(c)
    \/ \E c \in Calls : UploadFails(c)
    \/ \E c \in Calls : UploadTimesOut(c)
    \/ \E c \in Calls, ok \in BOOLEAN : LateUploadEnds(c, ok)

SpecUpload == InitUpload /\ [][NextUpload]_vars

InitWS ==
    /\ now = 0
    /\ InitStores
    /\ createCalls = 0
    /\ InitUnit
    /\ NoTree
    /\ NoObfuscator
    /\ InitIndexer

\* the harness of the unit tests drives one instance
One == {i \in Clients : \A j \in Clients : i <= j}

NextWS ==
    \/ \E i \in One, r \in Roots, b \in Commits : Construct(i, r, b)
    \/ \E i \in One : WorkspaceSyncInit(i)
    \/ \E i \in One, hasId \in BOOLEAN : CreateCodebaseResolves(i, hasId)
    \/ \E i \in One : CreateCodebaseRejects(i)
    \/ \E i \in One : UpdateRejects(i)
    \/ \E i \in One : UpdateResolves(i)
    \/ \E i \in One, f \in BOOLEAN : RetrieveDivergingFiles(i, f)
    \/ \E leaf \in SUBSET Hashes : BuildTreeResolves(leaf)
    \/ BuildTreeRejects
    \/ \E st \in Responses : CheckSyncedCodebaseResolves(st)
    \/ CheckSyncedCodebaseRejects
    \/ YieldDivergingFiles
    \/ Tick

SpecWS == InitWS /\ [][NextWS]_vars

(* concurrent init() calls of several instances, as the orchestrator makes *)
NextInit ==
    \/ \E i \in Clients, r \in Roots, b \in Commits : Construct(i, r, b)
    \/ \E i \in Clients : WorkspaceSyncInit(i)
    \/ \E i \in Clients, hasId \in BOOLEAN : CreateCodebaseResolves(i, hasId)
    \/ \E i \in Clients : CreateCodebaseRejects(i)
    \/ \E i \in Clients : UpdateRejects(i)
    \/ \E i \in Clients : UpdateResolves(i)

SpecInit == InitWS /\ [][NextInit]_vars

(* ---------------------- claims: CodebaseIndexer ------------------------- *)
\* a cycle between taking the lock and its last queued upload
Busy(c) == calls[c].pc \in {"discover", "upload"}

\* C1: at most one sync cycle is in its discovery or upload phase at any time,
\* an active cycle holds syncLocked, and no invocation starts its discovery
\* while syncLocked is held.
C1_OneCycle ==
    /\ [](Cardinality({c \in Calls : Busy(c)}) <= 1)
    /\ []((\E c \in Calls : Busy(c)) => syncLocked)
    /\ [][\A c \in Calls : (~Busy(c) /\ Busy(c)') => ~syncLocked]_vars

C1_Witness ==
    \E c, d \in Calls :
        /\ calls[c].pc = "upload" /\ calls[c].started > 0
        /\ syncLocked
        /\ calls[d].pc = "creating" /\ calls[d].after = "sync"
        /\ \A r \in Roots : calls[d].mk[r].pc = "ready"

\* C2: when no cycle is in its discovery or upload phase (in particular after
\* a cycle has failed with an exception), syncLocked is released.
C2_LockReleased ==
    (\A c \in Calls : ~Busy(c)) => ~syncLocked

\* C3: sync() never completes with an exception: a rejection during the
\* traversal is logged and the invocation ends normally.
C3_SyncNeverThrows ==
    /\ [](\A c \in Calls : calls[c].pc # "threw")
    /\ [][\A c \in Calls :
            (calls[c].pc = "discover" /\ calls'[c].pc \notin {"discover", "upload"}
               /\ syncLocked')
            => (errorLogged' /\ calls'[c].pc \in {"free", "aborted"})]_vars

C3_Witness ==
    /\ errorLogged
    /\ \E c \in Calls : calls[c].pc = "aborted"
    /\ \A c \in Calls : calls[c].pc # "threw"

\* C4: within a cycle no upload is started for a content hash for which three
\* failed attempts are already recorded.
C4_NoFourthAttempt ==
    [][\A c \in Calls :
         (calls[c].pc = "upload" /\ calls'[c].pc = "upload"
            /\ calls'[c].started = calls[c].started + 1)
         => Retries(calls[c], calls[c].tasks[calls[c].started + 1]) < MaxRetries]_vars

\* C5: the step in which the third failure of a content hash is recorded
\* counts the file as processed.
C5_ThirdFailureCounted ==
    [][\A c \in Calls, h \in Hashes :
         (calls[c].pc = "upload" /\ calls'[c].pc = "upload"
            /\ Retries(calls[c], h) = MaxRetries - 1
            /\ Retries(calls'[c], h) = MaxRetries)
         => calls'[c].processedCount = calls[c].processedCount + 1]_vars

\* C6: after a failed upload that leaves fewer than three failures recorded for
\* its content hash, a further attempt for that hash is queued in the cycle.
C6_FailedUploadRetried ==
    [][\A c \in Calls :
         (calls[c].pc = "upload" /\ calls[c].running /\ calls'[c].pc = "upload"
            /\ Retries(calls'[c], calls[c].tasks[calls[c].started])
                 = Retries(calls[c], calls[c].tasks[calls[c].started]) + 1
            /\ Retries(calls'[c], calls[c].tasks[calls[c].started]) < MaxRetries)
         => \E k \in (calls[c].started + 1)..Len(calls[c].tasks) :
               calls[c].tasks[k] = calls[c].tasks[calls[c].started]]_vars

\* the invocations whose WorkspaceSync for root r awaits its createCodebase()
Creating(r) ==
    {c \in Calls : calls[c].pc = "creating" /\ calls[c].mk[r].pc = "creating"}

\* C11: for no workspace root are two create-codebase requests in flight at
\* the same time: concurrent init() calls for a root never each create one.
C11_CreatedOnce ==
    \A r \in Roots : Cardinality(Creating(r)) <= 1

\* what a sync() call of invocation c does up to its first await: it starts a
\* recreation, or returns at the lock check, or takes the lock and starts the
\* discovery
SyncCalled(c) ==
    IF ~initialized THEN calls'[c].pc = "creating" /\ calls'[c].after = "sync"
    ELSE IF syncLocked THEN calls' = calls /\ syncLocked'
    ELSE calls'[c].pc = "discover" /\ syncLocked'

\* C14 as stated: every file-save event triggers sync() and leaves the
\* directory cache as it is; every file-create and file-delete event clears
\* the directory cache and triggers sync().
C14_EventsAsStated ==
    /\ [][\A c \in Calls : SaveTextDocument(c)
            => (SyncCalled(c) /\ dirCache' = dirCache)]_vars
    /\ [][\A c \in Calls : CreateOrDeleteFiles(c)
            => (SyncCalled(c) /\ dirCache' = {})]_vars

C16_InitialForcedSync ==
    [][\A c \in Calls :
         (calls[c].pc = "creating" /\ calls[c].after \in {"init", "initsync"}
            /\ calls'[c].pc # "creating" /\ ~syncLocked)
         => /\ calls'[c].pc = "discover"
            /\ calls'[c].force
            /\ \A k \in DOMAIN calls'[c].disc : calls'[c].disc[k] = "pending"]_vars

\* the task bodies of a cycle that are executing: the task the queue is
\* running and the bodies of tasks it has timed out
Executing(call) == (IF call.running THEN 1 ELSE 0) + call.zombies

\* C17: at most one upload task body of a cycle is executing at any time.
C17_UploadsSerialized ==
    \A c \in Calls : calls[c].pc = "upload" => Executing(calls[c]) <= 1

\* C18: a sync() call (here the one of a file save) that arrives while
\* syncLocked is true changes nothing: no invocation state (no recreation, no
\* discovery, no upload), no create-codebase request, and the lock, the map
\* of clients and the directory cache stay as they are.
C18_LockedSyncNoOp ==
    [][\A c \in Calls :
         (syncLocked /\ SaveTextDocument(c))
         => /\ calls' = calls
            /\ createCalls' = createCalls
            /\ syncLocked'
            /\ services' = services
            /\ dirCache' = dirCache]_vars

(* ----------------------- claims: WorkspaceSync -------------------------- *)
\* the step in which retrieveDivergingFiles(forceIndex) is called on instance i
Called(i, forceIndex) ==
    /\ gen.pc \in {"idle", "done", "failed"}
    /\ ws[i].pc = "ready"
    /\ gen' # gen
    /\ gen'.client = i
    /\ gen'.force = forceIndex

\* the recorded status is at most ten minutes old and names the client's branch
RecentSameBranch(c) ==
    /\ HasLastSyncStatus(c)
    /\ now - lastSyncStatus(c).ts <= TenMinutes
    /\ lastSyncStatus(c).hash = c.branchHash

\* C7: retrieveDivergingFiles(false) on a client whose recorded status is at most
\* ten minutes old with the client's branch hash returns at once: nothing is
\* yielded, no tree is built, no request is sent and the stored status is kept.
C7_Throttle ==
    [][\A i \in Clients :
         (Called(i, FALSE) /\ RecentSameBranch(ws[i]))
         => /\ gen'.pc = "done"
            /\ gen'.yielded = <<>>
            /\ ~gen'.built /\ ~gen'.checked /\ ~gen'.wrote
            /\ syncStatuses' = syncStatuses]_vars

C7_Witness ==
    /\ gen.pc = "done" /\ ~gen.force /\ ~gen.built
    /\ ws[gen.client].codebaseId # NullId
    /\ RecentSameBranch(ws[gen.client])
    /\ now - lastSyncStatus(ws[gen.client]).ts = TenMinutes

\* the three cases of the claim, stated on the stored record
MaySync(c) ==
    \/ lastSyncKey(c) \notin DOMAIN syncStatuses
    \/ now - syncStatuses[lastSyncKey(c)].ts > TenMinutes
    \/ syncStatuses[lastSyncKey(c)].hash # c.branchHash

\* C8: with a codebase id, canSync is true iff no status is recorded, or it is
\* more than ten minutes old, or it names another branch hash; in each of
\* these cases retrieveDivergingFiles(false) goes on to the tree build, and a
\* built tree is followed by the diff check.
C8_CanSync ==
    /\ [](\A i \in Clients :
            ws[i].codebaseId # NullId => (canSync(ws[i]) <=> MaySync(ws[i])))
    /\ [][\A i \in Clients :
            (Called(i, FALSE) /\ ws[i].codebaseId # NullId /\ MaySync(ws[i]))
            => gen'.pc = "building"]_vars
    /\ [](gen.pc \in {"checking", "persisting"} => gen.built /\ gen.checked)

C8_Witness ==
    /\ gen.pc = "persisting" /\ ~gen.force /\ gen.built /\ gen.checked
    /\ ws[gen.client].codebaseId # NullId

Range(q) == {q[k] : k \in 1..Len(q)}

\* C9: retrieveDivergingFiles(true) never returns early, whatever canSync is:
\* it builds the tree, sends the diff check and yields the local files whose
\* hash the remote reported (none when the remote reports synced).
C9_ForceIndex ==
    /\ [][\A i \in Clients : Called(i, TRUE) => gen'.pc = "building"]_vars
    /\ [][(gen.pc = "persisting" /\ gen.force /\ gen'.pc = "done")
          => /\ gen.built /\ gen.checked
             /\ Range(gen'.yielded) =
                  IF gen.status.synced THEN {}
                  ELSE gen.leaf \cap Range(gen.status.diverging_files)]_vars

C9_Witness ==
    /\ gen.pc = "done" /\ gen.force /\ gen.built /\ gen.checked
    /\ gen.yielded # <<>>
    /\ ~canSync(ws[gen.client])

\* C10: init() calls create-codebase iff no id is stored for the root; after an
\* init that did not fail the stored id is the client's codebaseId; a stored
\* id is never replaced.
C10_InitContract ==
    /\ [][\A i \in Clients :
            (ws[i].pc = "new" /\ ws'[i].pc # "new")
            => ((createCalls' = createCalls + 1)
                  <=> ws[i].workspacePath \notin DOMAIN codebaseKeys)]_vars
    /\ [][\A i \in Clients :
            (ws[i].pc # "ready" /\ ws'[i].pc = "ready" /\ ~ws'[i].failed)
            => /\ ws[i].workspacePath \in DOMAIN codebaseKeys' \/ ws'[i].codebaseId = NullId
               /\ ws[i].workspacePath \in DOMAIN codebaseKeys'
                    => codebaseKeys'[ws[i].workspacePath] = ws'[i].codebaseId]_vars
    /\ [][\A r \in DOMAIN codebaseKeys :
            r \in DOMAIN codebaseKeys' /\ codebaseKeys'[r] = codebaseKeys[r]]_vars

\* the reported hashes that have a local file, in the reported order
RECURSIVE LocalOf(_, _)
LocalOf(reported, leaf) ==
    IF reported = <<>> THEN <<>>
    ELSE (IF Head(reported) \in leaf THEN <<Head(reported)>> ELSE <<>>)
         \o LocalOf(Tail(reported), leaf)

\* C12: a call that has run to its end after the diff check has yielded nothing
\* when the remote reported synced, and otherwise the reported hashes that
\* have a local file, in the reported order, without the others.
C12_YieldsLocalDiverging ==
    (gen.pc = "done" /\ gen.checked)
    => /\ gen.status.synced => gen.yielded = <<>>
       /\ ~gen.status.synced => gen.yielded = LocalOf(gen.status.diverging_files, gen.leaf)
       /\ \A k \in 1..Len(gen.yielded) : gen.yielded[k] \in gen.leaf

C12_Witness ==
    /\ gen.pc = "done" /\ gen.checked /\ ~gen.status.synced
    /\ gen.yielded # <<>>
    /\ \E k \in 1..Len(gen.status.diverging_files) :
          gen.status.diverging_files[k] \notin gen.leaf

\* C13: the step in which the diff check is answered stores {hash: the
\* client's branch hash, ts: now} under the client's sync-status key, for a
\* synced and for a not synced answer alike, and nothing is yielded before.
C13_StatusPersisted ==
    /\ [][(gen.pc = "checking" /\ gen'.pc = "persisting")
          => /\ lastSyncKey(ws[gen.client]) \in DOMAIN syncStatuses'
             /\ syncStatuses'[lastSyncKey(ws[gen.client])]
                  = [hash |-> ws[gen.client].branchHash, ts |-> now]
             /\ gen'.yielded = <<>>]_vars
    /\ []((gen.pc \in {"persisting", "done"} /\ gen.checked) => gen.wrote)
    /\ [](gen.yielded # <<>> => gen.wrote)

C13_Witness ==
    /\ gen.pc = "done" /\ gen.wrote /\ gen.status.synced
    /\ now > 0
    /\ HasLastSyncStatus(ws[gen.client])
    /\ lastSyncStatus(ws[gen.client]) = [hash |-> ws[gen.client].branchHash, ts |-> now]

\* C19: an init() that ends without a codebase id (the create-codebase call
\* or the storage update failed) has logged the error, has stored nothing in
\* its last step, and leaves a client whose canSync is false.
C19_InitFailureLogged ==
    [][\A i \in Clients :
         (ws[i].pc \in {"creating", "updating"} /\ ws'[i].pc = "ready"
            /\ ws'[i].codebaseId = NullId)
         => /\ ws'[i].failed
            /\ codebaseKeys' = codebaseKeys
            /\ ~canSync(ws'[i])]_vars

(* ------------------- building the tree of a workspace ------------------- *)
FileNodes(dir, files) ==
    {[path |-> Join(dir, n), type |-> "file"] : n \in {m \in Names : files[m] # "none"}}

\* the nodes the walker creates for the entries of the root and of the
\* subdirectory
RootEntries ==
    FileNodes(RootPath, fileTree.root)
        \cup (IF fileTree.hasSub THEN {[path |-> SubPath, type |-> "dir"]} ELSE {})

SubEntries == IF fileTree.hasSub THEN FileNodes(SubPath, fileTree.sub) ELSE {}

\* fs.readFile of a file node
ReadFile(path) ==
    IF \E n \in Names : path = Join(RootPath, n)
    THEN fileTree.root[CHOOSE n \in Names : path = Join(RootPath, n)]
    ELSE fileTree.sub[CHOOSE n \in Names : path = Join(SubPath, n)]

\* build b is the one in progress: the builds before it are finished
Walking(b) ==
    /\ hashes[b] = <<>>
    /\ \A a \in Builds : a < b => hashes[a] # <<>>

\* currentNode.children.push(...) for an entry of the root, in the order in
\* which the entries are listed and their callbacks run
PushRoot(b, e) ==
    /\ Walking(b)
    /\ e \in RootEntries \ Range(children[b].root)
    /\ children' = [children EXCEPT ![b].root = Append(@, e)]
    /\ UNCHANGED <<fileTree, hashes, modified>>
    /\ UNCHANGED <<storeVars, unitVars, idxVars, walkVars, obfVars>>

\* the same for an entry of the subdirectory, which is walked after the root
PushSub(b, e) ==
    /\ Walking(b)
    /\ RootEntries \subseteq Range(children[b].root)
    /\ e \in SubEntries \ Range(children[b].sub)
    /\ children' = [children EXCEPT ![b].sub = Append(@, e)]
    /\ UNCHANGED <<fileTree, hashes, modified>>
    /\ UNCHANGED <<storeVars, unitVars, idxVars, walkVars, obfVars>>

\* rootNode.buildHashes(): the files, then the subdirectory, then the root;
\* every directory sorts its children in place before folding them
BuildHashes(b) ==
    /\ Walking(b)
    /\ RootEntries \subseteq Range(children[b].root)
    /\ SubEntries \subseteq Range(children[b].sub)
    /\ LET files == {e.path : e \in {x \in RootEntries \cup SubEntries : x.type = "file"}}
           fileHash == [p \in files |-> generateFileHash(ReadFile(p))]
           sortedSub == SortChildren(children[b].sub)
           subHash == DirectoryHash(SubPath, sortedSub, fileHash)
           below == [p \in files \cup (IF fileTree.hasSub THEN {SubPath} ELSE {}) |->
                        IF p = SubPath THEN subHash ELSE fileHash[p]]
           sortedRoot == SortChildren(children[b].root)
           rootHash == DirectoryHash(RootPath, sortedRoot, below)
       IN /\ hashes' = [hashes EXCEPT ![b] =
                           [p \in DOMAIN below \cup {RootPath} |->
                               IF p = RootPath THEN rootHash ELSE below[p]]]
          /\ children' = [children EXCEPT ![b] = [root |-> sortedRoot, sub |-> sortedSub]]
    /\ UNCHANGED <<fileTree, modified>>
    /\ UNCHANGED <<storeVars, unitVars, idxVars, walkVars, obfVars>>

InitHash ==
    /\ now = 0
    /\ codebaseKeys = EmptyMap
    /\ syncStatuses = EmptyMap
    /\ createCalls = 0
    /\ InitUnit
    /\ InitIndexer
    /\ fileTree \in {t \in [root : [Names -> Contents], hasSub : BOOLEAN,
                            sub : [Names -> Contents]] :
                        ~t.hasSub => t.sub = EmptyTree.sub}
    /\ children = [b \in Builds |-> [root |-> <<>>, sub |-> <<>>]]
    /\ hashes = [b \in Builds |-> <<>>]
    /\ modified = NoWrite
    /\ NoWalk
    /\ NoObfuscator

NextHash ==
    \/ \E b \in Builds : \E e \in RootEntries : PushRoot(b, e)
    \/ \E b \in Builds : \E e \in SubEntries : PushSub(b, e)
    \/ \E b \in Builds : BuildHashes(b)

SpecHash == InitHash /\ [][NextHash]_vars

\* C20: two finished builds of the same file tree give the same hash to the
\* root and to every other node, whatever the order in which the children
\* were inserted.
C20_HashDeterminism ==
    \A a, b \in Builds :
        (hashes[a] # <<>> /\ hashes[b] # <<>>) => hashes[a] = hashes[b]

(* ------------------ a file is edited between two builds ----------------- *)
\* the builds that are finished
Hashed == {b \in Builds : hashes[b] # <<>>}

\* fs.writeFile of other text to a text file, after a build and before the
\* next one reads the file
WriteFile(dir, n) ==
    /\ modified = NoWrite
    /\ Hashed # {}
    /\ \E b \in Builds : Walking(b) /\ children[b].root = <<>>
    /\ fileTree[dir][n] = "text"
    /\ dir = "sub" => fileTree.hasSub
    /\ fileTree' = [fileTree EXCEPT ![dir][n] = "edited"]
    /\ modified' = [path |-> Join(IF dir = "root" THEN RootPath ELSE SubPath, n),
                    after |-> Cardinality(Hashed)]
    /\ UNCHANGED <<children, hashes>>
    /\ UNCHANGED <<storeVars, unitVars, idxVars, walkVars, obfVars>>

NextTamper ==
    \/ \E b \in Builds : \E e \in RootEntries : PushRoot(b, e)
    \/ \E b \in Builds : \E e \in SubEntries : PushSub(b, e)
    \/ \E b \in Builds : BuildHashes(b)
    \/ \E dir \in {"root", "sub"} : \E n \in Names : WriteFile(dir, n)

SpecTamper == InitHash /\ [][NextTamper]_vars

IsPrefix(p, q) == Len(p) <= Len(q) /\ SubSeq(q, 1, Len(p)) = p

\* the written file and the directories above it
OnPathToRoot(p) == {q \in {RootPath, SubPath, p} : IsPrefix(q, p)}

KeepExcluded(nodes, hashOf) == nodes

\* if (child.excluded) continue: the children that are exported
SkipExcluded(nodes, hashOf) ==
    LET Kept(node) == hashOf[node.path] # <<>>
    IN SelectSeq(nodes, Kept)

\* toTreeNode: id, type and parent_id (<< >> for undefined)
toTreeNode(node, hashOf, parentId) ==
    [id |-> hashOf[node.path], type |-> node.type, parent_id |-> parentId]

\* toTreeNodes of the nodes of a directory that has no directory below it
RECURSIVE LeafTreeNodes(_, _, _)
LeafTreeNodes(nodes, hashOf, parentId) ==
    IF nodes = <<>> THEN <<>>
    ELSE <<toTreeNode(Head(nodes), hashOf, parentId)>>
         \o LeafTreeNodes(Tail(nodes), hashOf, parentId)

\* toTreeNodes of the children of the root: a directory yields itself and
\* then its exported children, with its own hash as their parent_id
RECURSIVE ChildTreeNodes(_, _, _, _)
ChildTreeNodes(nodes, below, hashOf, parentId) ==
    IF nodes = <<>> THEN <<>>
    ELSE <<toTreeNode(Head(nodes), hashOf, parentId)>>
         \o (IF Head(nodes).type = "dir"
             THEN LeafTreeNodes(SkipExcluded(below, hashOf), hashOf, hashOf[Head(nodes).path])
             ELSE <<>>)
         \o ChildTreeNodes(Tail(nodes), below, hashOf, parentId)

\* rootNode.toTreeNodes() of build b
toTreeNodes(b) ==
    <<toTreeNode([path |-> RootPath, type |-> "dir"], hashes[b], <<>>)>>
        \o ChildTreeNodes(SkipExcluded(children[b].root, hashes[b]), children[b].sub,
                          hashes[b], hashes[b][RootPath])

\* the file nodes in the order in which dfs visits them
RECURSIVE VisitedFiles(_, _, _)
VisitedFiles(nodes, below, hashOf) ==
    IF nodes = <<>> THEN <<>>
    ELSE (IF Head(nodes).type = "dir"
          THEN VisitedFiles(SkipExcluded(below, hashOf), <<>>, hashOf)
          ELSE IF hashOf[Head(nodes).path] # <<>> THEN <<Head(nodes)>> ELSE <<>>)
         \o VisitedFiles(Tail(nodes), below, hashOf)

\* map.set(node.hash, node) for every visited file: a later file replaces an
\* earlier one that has the same hash
RECURSIVE SetAll(_, _)
SetAll(files, hashOf) ==
    IF files = <<>> THEN <<>>
    ELSE LET rest == SetAll(SubSeq(files, 1, Len(files) - 1), hashOf)
             last == files[Len(files)]
         IN [h \in DOMAIN rest \cup {hashOf[last.path]} |->
                IF h = hashOf[last.path] THEN last ELSE rest[h]]

\* rootNode.toLeafNodesMap() of build b
toLeafNodesMap(b) ==
    SetAll(VisitedFiles(SkipExcluded(children[b].root, hashes[b]), children[b].sub,
                        hashes[b]), hashes[b])

\* the nodes of the tree of a finished build, and those flagged excluded
NodesOf(b) == {[path |-> RootPath, type |-> "dir"]}
                 \cup Range(children[b].root) \cup Range(children[b].sub)

Excluded(b) == {n \in NodesOf(b) : hashes[b][n.path] = <<>>}

ParentHash(b, n) ==
    IF n.path = RootPath THEN <<>>
    ELSE IF n \in Range(children[b].root) THEN hashes[b][RootPath]
    ELSE hashes[b][SubPath]

\* C22: the export of a built tree has one tree node for each node that is
\* not excluded, with its hash, type and parent, and no other; the leaf map
\* has exactly the hashes of the files that are not excluded, each mapped to
\* such a file.
C22_ExcludedNotExported ==
    \A b \in Hashed :
        LET out == toTreeNodes(b)
            map == toLeafNodesMap(b)
            kept == NodesOf(b) \ Excluded(b)
        IN /\ Len(out) = Cardinality(kept)
           /\ \A i \in DOMAIN out : out[i].id # <<>>
           /\ \A n \in kept : \E i \in DOMAIN out :
                 out[i] = [id |-> hashes[b][n.path], type |-> n.type,
                           parent_id |-> ParentHash(b, n)]
           /\ DOMAIN map = {hashes[b][n.path] : n \in {k \in kept : k.type = "file"}}
           /\ \A h \in DOMAIN map :
                 map[h] \in kept /\ map[h].type = "file" /\ hashes[b][map[h].path] = h

\* a built tree with an excluded file and an exported file in the root and
\* in the subdirectory
C22_Witness ==
    \E b \in Hashed :
        /\ \E n \in Excluded(b) : n \in Range(children[b].root)
        /\ \E n \in Excluded(b) : n \in Range(children[b].sub)
        /\ \E n \in Range(children[b].root) \ Excluded(b) : n.type = "file"
        /\ \E n \in Range(children[b].sub) \ Excluded(b) : TRUE

\* the digest of a directory's path followed by path and hash of each of
\* the given children
HashWithChildren(b, path, kids) ==
    <<(<<[path |-> path, hash |-> <<>>, data |-> "none"]>>
        \o [i \in 1..Len(kids) |->
              [path |-> kids[i].path, hash |-> hashes[b][kids[i].path], data |-> "none"]])>>

\* the children of a directory with the excluded ones taken out
Without(b, kids) ==
    LET Kept(n) == n \notin Excluded(b)
    IN SelectSeq(kids, Kept)

\* C23: in a built tree every directory has the hash of its path and of the
\* (path, hash) pairs of its children without the excluded ones, that is the
\* hash it has without these children; a file that is not excluded has the
\* hash of its content, whatever its siblings are.
C23_ExcludedNotHashed ==
    \A b \in Hashed :
        /\ hashes[b][RootPath] =
              HashWithChildren(b, RootPath, Without(b, children[b].root))
        /\ fileTree.hasSub =>
              hashes[b][SubPath] =
                 HashWithChildren(b, SubPath, Without(b, children[b].sub))
        /\ \A n \in NodesOf(b) \ Excluded(b) :
              n.type = "file" =>
                 hashes[b][n.path] =
                    <<(<<[path |-> <<>>, hash |-> <<>>, data |-> ReadFile(n.path)]>>)>>

\* a built tree whose root and subdirectory each have an excluded child
\* between children that are not excluded
C23_Witness ==
    \E b \in Hashed :
        /\ \E i, j, k \in DOMAIN children[b].root :
              /\ i < j /\ j < k
              /\ children[b].root[j] \in Excluded(b)
              /\ children[b].root[i] \notin Excluded(b)
              /\ children[b].root[k] \notin Excluded(b)
        /\ \E j \in DOMAIN children[b].sub :
              /\ children[b].sub[j] \in Excluded(b)
              /\ Len(Without(b, children[b].sub)) >= 1

(* --------------------------- walking a tree ----------------------------- *)
\* LIST_DIR_CACHE_TIME = 30_000 ms
ListDirCacheTime == 3

CacheMissAlways(cache, promises, dir, t) == FALSE

CacheHitInclusive(cache, promises, dir, t) ==
    /\ dir \in DOMAIN cache
    /\ promises[cache[dir]].time >= t - ListDirCacheTime

\* cachedListdir && cachedListdir.time > Date.now() - this.LIST_DIR_CACHE_TIME
CacheHit(cache, promises, dir, t) ==
    /\ dir \in DOMAIN cache
    /\ promises[cache[dir]].time > t - ListDirCacheTime

\* IGNORE_FILE_CACHE_TIME = 30_000 ms
IgnoreFileCacheTime == 3

\* cachedIgnore && cachedIgnore.time > Date.now() - this.IGNORE_FILE_CACHE_TIME
IgnoreCacheHit(cache, dir, t) ==
    /\ dir \in DOMAIN cache
    /\ cache[dir].time > t - IgnoreFileCacheTime

\* The ignore files of dir, after its entries have arrived: a fresh cache
\* entry is awaited, otherwise getIgnoreContext is called with the entries
\* and its promise is put into the cache; listing is the listDir call the
\* entries are of.
ProcessIgnoreFiles(cache, dir, listing, t) ==
    IF IgnoreCacheHit(cache, dir, t) THEN cache
    ELSE [d \in DOMAIN cache \cup {dir} |->
            IF d = dir THEN [time |-> t, entries |-> listing] ELSE cache[d]]

\* The loop of buildTree from stack.pop() to the await of the entries of dir:
\* a fresh cache entry is awaited, otherwise listDir is called and its
\* promise is put into the cache.
Visit(w, walker, dir, rest) ==
    IF CacheHit(dirListCache, listings, dir, clock)
    THEN /\ walkers' = [walkers EXCEPT ![w] =
                [walker EXCEPT !.pc = "listing", !.cur = dir, !.stack = rest,
                               !.awaits = dirListCache[dir], !.hits = @ + 1]]
         /\ UNCHANGED <<dirListCache, listings>>
    ELSE /\ listings' = Append(listings, [dir |-> dir, time |-> clock,
                                          epoch |-> epoch, done |-> FALSE])
         /\ dirListCache' = [d \in DOMAIN dirListCache \cup {dir} |->
                                IF d = dir THEN Len(listings) + 1 ELSE dirListCache[d]]
         /\ walkers' = [walkers EXCEPT ![w] =
                [walker EXCEPT !.pc = "listing", !.cur = dir, !.stack = rest,
                               !.awaits = Len(listings) + 1, !.cold = @ + 1]]

\* buildTree() is called on a new walker
BuildTree(w) ==
    /\ walkers[w].pc = "idle"
    /\ \A v \in Walkers : v < w => walkers[v].pc # "idle"
    /\ Cardinality({v \in Walkers : walkers[v].pc = "listing"}) < MaxConcurrent
    /\ Visit(w, [walkers[w] EXCEPT !.started = clock, !.epoch = epoch,
                                    !.after = {v \in Walkers : walkers[v].pc = "resolved"}],
             <<>>, {})
    /\ UNCHANGED <<disk, clock, dirIgnoreCache, epoch>>
    /\ UNCHANGED <<storeVars, unitVars, idxVars, treeVars, obfVars>>

\* fs.readdir of a listDir call ends
ListDirResolves(i) ==
    /\ i \in DOMAIN listings
    /\ ~listings[i].done
    /\ listings' = [listings EXCEPT ![i].done = TRUE]
    /\ UNCHANGED <<disk, clock, dirListCache, dirIgnoreCache, epoch, walkers>>
    /\ UNCHANGED <<storeVars, unitVars, idxVars, treeVars, obfVars>>

SymlinkIsEntry(type) == FALSE

\* entryIsSymlink
entryIsSymlink(type) == type = "symlink"

\* the entries of dir that get a node
Walkable(d, dir) ==
    {p \in ListDir(d, dir) :
        /\ ~entryIsSymlink(d.entries[p])
        /\ ~isPathIgnored(p, IgnoreContexts(d, dir))}

\* rootNode.buildHashes(): the files whose hash is null are excluded
ExcludedFiles(d, pushed) ==
    {p \in DOMAIN d.entries :
        /\ pushed[p] > 0
        /\ d.entries[p] = "file"
        /\ generateFileHash(d.content[p]) = <<>>}

\* The entries of the current directory have arrived.  Reading an ignore
\* file of the directory may throw, which rejects buildTree.  Otherwise
\* every walkable entry gets a node, the directories among them go on the
\* stack, and the walk goes on with a directory of the stack (next) or, the
\* stack being empty, ends with buildHashes.
WalkDir(w, next) ==
    LET walker == walkers[w]
        dir == walker.cur
        nodes == Walkable(disk, dir)
        pushed == [p \in EntryPaths |-> walker.pushed[p] + (IF p \in nodes THEN 1 ELSE 0)]
        stack == walker.stack \cup {p \in nodes : disk.entries[p] = "dir"}
    IN /\ walker.pc = "listing"
       /\ listings[walker.awaits].done
       /\ dirIgnoreCache' = ProcessIgnoreFiles(dirIgnoreCache, dir, walker.awaits, clock)
       /\ IF dir \in disk.unreadable
          THEN /\ next = dir
               /\ walkers' = [walkers EXCEPT ![w].pc = "rejected"]
               /\ UNCHANGED <<dirListCache, listings>>
          ELSE IF stack = {}
          THEN /\ next = dir
               /\ walkers' = [walkers EXCEPT ![w] =
                      [walker EXCEPT !.pc = "resolved", !.pushed = pushed, !.stack = {},
                                     !.excluded = ExcludedFiles(disk, pushed)]]
               /\ UNCHANGED <<dirListCache, listings>>
          ELSE /\ next \in stack
               /\ Visit(w, [walker EXCEPT !.pushed = pushed], next, stack \ {next})
       /\ UNCHANGED <<disk, clock, epoch>>
       /\ UNCHANGED <<storeVars, unitVars, idxVars, treeVars, obfVars>>

\* time passes
WalkTick ==
    /\ clock < MaxClock
    /\ clock' = clock + 1
    /\ UNCHANGED <<disk, dirListCache, dirIgnoreCache, listings, epoch, walkers>>
    /\ UNCHANGED <<storeVars, unitVars, idxVars, treeVars, obfVars>>

\* walkDirCache.invalidate()
Invalidate ==
    /\ epoch < MaxInvalidations
    /\ dirListCache' = <<>>
    /\ dirIgnoreCache' = <<>>
    /\ epoch' = epoch + 1
    /\ UNCHANGED <<disk, clock, listings, walkers>>
    /\ UNCHANGED <<storeVars, unitVars, idxVars, treeVars, obfVars>>

NoIgnoreFiles == [dir \in Dirs |-> <<>>]

\* the file systems that are walked: src with index.ts and, or not, utils.ts
\* and logo.svg; node_modules with helper.js, or not; package.json; each of
\* index.ts and package.json a file or a symbolic link; ignore files in the
\* root and in src, the nested .gitignore that of walker.test.ts
Entries(indexTs, utilsTs, logoSvg, modules, packageJson) ==
    [p \in {SrcDir, IndexTs, PackageJson}
            \cup (IF utilsTs THEN {UtilsTs} ELSE {})
            \cup (IF logoSvg THEN {LogoSvg} ELSE {})
            \cup (IF modules THEN {ModulesDir, HelperJs} ELSE {}) |->
        IF p \in {SrcDir, ModulesDir} THEN "dir"
        ELSE IF p = IndexTs THEN indexTs
        ELSE IF p = PackageJson THEN packageJson
        ELSE "file"]

Disks ==
    {[entries |-> Entries(i, u, l, m, pj),
      gitignore |-> [NoIgnoreFiles EXCEPT ![<<>>] = g, ![SrcDir] = gs],
      posthogignore |-> [NoIgnoreFiles EXCEPT ![<<>>] = ph, ![SrcDir] = phs],
      unreadable |-> un,
      content |-> [p \in EntryPaths |-> IF p = PackageJson THEN c ELSE "text"]] :
        i \in {"file", "symlink"}, u \in BOOLEAN, l \in BOOLEAN, m \in BOOLEAN,
        pj \in {"file", "symlink"},
        g \in {<<>>, <<StarTs>>, <<NodeModules>>},
        ph \in {<<>>, <<StarTs, NotSrcIndexTs>>, <<NotSrcIndexTs>>, <<NotSrcLogoSvg>>},
        gs \in {<<>>, <<StarTs, NotIndexTs>>},
        phs \in {<<>>, <<NotLogoSvg>>, <<StarJson>>},
        un \in {{}, {<<>>}, {SrcDir}},
        c \in {"text", "binary", "unreadable"}}

\* a directory has an ignore file that can be read or not
HasIgnoreFile(d, dir) == d.gitignore[dir] # <<>> \/ d.posthogignore[dir] # <<>>

IdleStores ==
    /\ now = 0
    /\ codebaseKeys = EmptyMap
    /\ syncStatuses = EmptyMap
    /\ createCalls = 0
    /\ InitUnit
    /\ InitIndexer
    /\ fileTree = EmptyTree
    /\ children = [b \in Builds |-> [root |-> <<>>, sub |-> <<>>]]
    /\ hashes = [b \in Builds |-> <<>>]
    /\ modified = NoWrite

InitWalk ==
    /\ IdleStores
    /\ NoObfuscator
    /\ disk \in {d \in Disks : \A dir \in d.unreadable : HasIgnoreFile(d, dir)}
    /\ clock = 0
    /\ dirListCache = <<>>
    /\ dirIgnoreCache = <<>>
    /\ listings = <<>>
    /\ epoch = 0
    /\ walkers = [w \in Walkers |-> IdleWalker]

\* one walker builds the tree
Alone == {w \in Walkers : \A v \in Walkers : w <= v}

NextWalk ==
    \/ \E w \in Alone : BuildTree(w)
    \/ \E i \in DOMAIN listings : ListDirResolves(i)
    \/ \E w \in Alone : \E next \in Dirs : WalkDir(w, next)

SpecWalk == InitWalk /\ [][NextWalk]_vars

\* the entries that are neither a symbolic link nor ignored, and whose
\* directories up to the root are neither
Reachable(d) ==
    {p \in DOMAIN d.entries :
        \A k \in 1..Len(p) :
            LET q == SubSeq(p, 1, k)
            IN /\ d.entries[q] # "symlink"
               /\ ~isPathIgnored(q, IgnoreContexts(d, Front(q)))}

\* C24: the tree of a finished walk has exactly one node for every entry that
\* is not a symbolic link and not ignored and lies below such directories
\* only, and no node for any other entry.
C24_TreeMatchesEntries ==
    \A w \in Walkers :
        walkers[w].pc = "resolved" =>
            \A p \in EntryPaths :
                walkers[w].pushed[p] = (IF p \in Reachable(disk) THEN 1 ELSE 0)

\* a finished walk of a tree with node_modules named in the root .gitignore,
\* a symbolic link in src and a symbolic link that a negation names
C24_Witness ==
    \E w \in Walkers :
        /\ walkers[w].pc = "resolved"
        /\ disk.gitignore[<<>>] = <<NodeModules>>
        /\ HelperJs \in DOMAIN disk.entries
        /\ disk.entries[IndexTs] = "symlink"
        /\ disk.posthogignore[<<>>] = <<NotSrcIndexTs>>
        /\ walkers[w].pushed[UtilsTs] = 1
        /\ walkers[w].pushed[PackageJson] = 1

\* the path taken from the directory dir above it
RelativeTo(dir, path) == SubSeq(path, Len(dir) + 1, Len(path))

\* dir is the one directory at or above the parent of path that has ignore files
OnlyIgnoreFilesAbove(d, dir, path) ==
    /\ IsPrefix(dir, Front(path))
    /\ HasIgnoreFile(d, dir)
    /\ \A other \in Dirs \ {dir} : IsPrefix(other, Front(path)) => ~HasIgnoreFile(d, other)

\* C25: in a finished walk, an entry below the one directory D with ignore
\* files above it, that is not a symbolic link and whose parent has a node,
\* has a node exactly if the rules of D, with .posthogignore over the
\* built-in rules over .gitignore, do not ignore it.
C25_IgnorePrecedence ==
    \A w \in Walkers : \A dir \in Dirs : \A p \in DOMAIN disk.entries :
        (/\ walkers[w].pc = "resolved"
         /\ OnlyIgnoreFilesAbove(disk, dir, p)
         /\ disk.entries[p] # "symlink"
         /\ (Front(p) = <<>> \/ walkers[w].pushed[Front(p)] = 1))
        => (walkers[w].pushed[p] = 1
              <=> ~Ignores(getIgnoreContext(disk, dir).ignore, RelativeTo(dir, p)))

\* C26: no buildTree call fails, whatever file cannot be read, and a finished
\* call has flagged as excluded exactly the files of the tree that are binary
\* or cannot be read.
C26_WalkCompletes ==
    \A w \in Walkers :
        /\ walkers[w].pc # "rejected"
        /\ walkers[w].pc = "resolved" =>
              walkers[w].excluded =
                 {p \in DOMAIN disk.entries :
                     /\ walkers[w].pushed[p] = 1
                     /\ disk.entries[p] = "file"
                     /\ disk.content[p] \in {"binary", "unreadable"}}

(* ----------------- walks that share the listing cache ------------------- *)
\* the tree of the walker's tests: src with two files, package.json, and
\* node_modules named in the root .gitignore
TestDisk ==
    [entries |-> Entries("file", TRUE, FALSE, TRUE, "file"),
     gitignore |-> [NoIgnoreFiles EXCEPT ![<<>>] = <<NodeModules>>],
     posthogignore |-> NoIgnoreFiles,
     unreadable |-> {},
     content |-> [p \in EntryPaths |-> "text"]]

InitCache ==
    /\ IdleStores
    /\ NoObfuscator
    /\ disk = TestDisk
    /\ clock = 0
    /\ dirListCache = <<>>
    /\ dirIgnoreCache = <<>>
    /\ listings = <<>>
    /\ epoch = 0
    /\ walkers = [w \in Walkers |-> IdleWalker]

NextCache ==
    \/ \E w \in Walkers : BuildTree(w)
    \/ \E i \in DOMAIN listings : ListDirResolves(i)
    \/ \E w \in Walkers : \E next \in Dirs : WalkDir(w, next)
    \/ WalkTick
    \/ Invalidate

SpecCache == InitCache /\ [][NextCache]_vars

\* build b began after build a had ended, less than 30 s after a began, and
\* the cache was not invalidated from the beginning of a to the end of b
BuiltTwice(a, b) ==
    /\ walkers[b].pc = "resolved"
    /\ a \in walkers[b].after
    /\ walkers[b].started - walkers[a].started < ListDirCacheTime
    /\ walkers[a].epoch = walkers[b].epoch
    /\ walkers[b].epoch = epoch

\* C27: the second of two builds of the tree within the 30-second window has
\* strictly more directory-listing cache hits than the first.
C27_SecondBuildHitsMore ==
    \A a, b \in Walkers : BuiltTwice(a, b) => walkers[b].hits > walkers[a].hits

\* C27, amended: the second of two builds within the window has strictly more
\* cache hits than the first when the first found no listing in the cache.
C27_SecondBuildHitsAfterCold ==
    \A a, b \in Walkers :
        (BuiltTwice(a, b) /\ walkers[a].hits = 0) => walkers[b].hits > walkers[a].hits

\* two builds within the window, the first of which listed the root and src
C27_Witness ==
    \E a, b \in Walkers :
        /\ BuiltTwice(a, b)
        /\ walkers[a].hits = 0
        /\ walkers[a].cold = 2
        /\ walkers[b].hits = 2

\* the listings started by a step
Started == {i \in DOMAIN listings' : i \notin DOMAIN listings}

\* the walkers that a step serves from the cache
Served == {w \in Walkers : walkers'[w].hits > walkers[w].hits}

\* C28: between two invalidations a listing of a directory is started only
\* when every earlier listing of that directory is 30 s old or older, so
\* within the window concurrent builds share one listing; and a build is
\* served from the cache only by a listing of the directory it visits, in
\* flight or completed, that was started after the last invalidation and is
\* younger than 30 s.
C28_ListingsCoalesce ==
    [][/\ \A i \in Started : \A j \in DOMAIN listings :
              (listings[j].dir = listings'[i].dir /\ listings[j].epoch = listings'[i].epoch)
                  => listings'[i].time - listings[j].time >= ListDirCacheTime
       /\ Cardinality(Started) <= 1
       /\ \A w \in Served :
              LET entry == listings[walkers'[w].awaits]
              IN /\ walkers'[w].awaits \in DOMAIN listings
                 /\ entry.dir = walkers'[w].cur
                 /\ entry.epoch = epoch
                 /\ clock - entry.time < ListDirCacheTime
                 /\ Started = {}]_vars

\* two builds await the same listing while it is in flight, after the
\* directory had been listed once before and that entry had expired
C28_Witness ==
    /\ \E v, w \in Walkers :
          /\ v # w
          /\ walkers[v].pc = "listing" /\ walkers[w].pc = "listing"
          /\ walkers[v].awaits = walkers[w].awaits
          /\ walkers[w].hits > 0
          /\ ~listings[walkers[v].awaits].done
    /\ \E i, j \in DOMAIN listings :
          /\ i < j
          /\ listings[i].dir = listings[j].dir
          /\ listings[i].epoch = listings[j].epoch

(* ---------------------------- PathObfuscator ---------------------------- *)
\* A string is the sequence of its code points, a Buffer the sequence of its
\* bytes.  The paths are made of "/", ".", "a" and the two-byte "e acute".
Solidus == 47
FullStop == 46
SmallA == 97
SmallEAcute == 233
ReplacementChar == 65533
PathChars == {Solidus, FullStop, SmallA, SmallEAcute}
Paths == SeqsUpTo(PathChars, MaxPathLen)

\* private readonly NONCE_LEN = 6, TAG_LEN = 16
NonceLen == 6
TagLen == 16

RECURSIVE SumBytes(_)
SumBytes(b) == IF b = <<>> THEN 0 ELSE Head(b) + SumBytes(Tail(b))

\* the position of the first delimiter of s, 0 if there is none
FirstOf(s, seps) ==
    LET found == {i \in DOMAIN s : s[i] \in seps}
    IN IF found = {} THEN 0 ELSE CHOOSE i \in found : \A j \in found : i <= j

\* String.prototype.split: on the delimiters seps, the delimiters being kept
\* as parts of their own when the pattern captures them
RECURSIVE Split(_, _, _)
Split(s, seps, keep) ==
    LET first == FirstOf(s, seps)
    IN IF first = 0 THEN <<s>>
       ELSE <<SubSeq(s, 1, first - 1)>>
            \o (IF keep THEN <<<<s[first]>>>> ELSE <<>>)
            \o Split(SubSeq(s, first + 1, Len(s)), seps, keep)

\* Array.prototype.join
RECURSIVE JoinParts(_, _)
JoinParts(parts, sep) ==
    IF parts = <<>> THEN <<>>
    ELSE IF Len(parts) = 1 THEN parts[1]
    ELSE parts[1] \o sep \o JoinParts(Tail(parts), sep)

\* cipher.update(segment, 'utf8'): one byte below U+0080, two below U+0800
RECURSIVE Utf8Encode(_)
Utf8Encode(s) ==
    IF s = <<>> THEN <<>>
    ELSE (IF Head(s) < 128 THEN <<Head(s)>>
          ELSE <<192 + (Head(s) \div 64), 128 + (Head(s) % 64)>>) \o Utf8Encode(Tail(s))

\* Buffer.toString('utf8'): a byte that starts no valid sequence gives U+FFFD
RECURSIVE Utf8Decode(_)
Utf8Decode(b) ==
    IF b = <<>> THEN <<>>
    ELSE IF b[1] < 128 THEN <<b[1]>> \o Utf8Decode(Tail(b))
    ELSE IF b[1] >= 194 /\ b[1] < 224 /\ Len(b) >= 2 /\ b[2] >= 128 /\ b[2] < 192
         THEN <<(b[1] - 192) * 64 + (b[2] - 128)>> \o Utf8Decode(Tail(Tail(b)))
    ELSE <<ReplacementChar>> \o Utf8Decode(Tail(b))

\* the alphabet of 'base64': "+" and "/" for 62 and 63
Base64Char(v) ==
    IF v < 26 THEN 65 + v
    ELSE IF v < 52 THEN 97 + (v - 26)
    ELSE IF v < 62 THEN 48 + (v - 52)
    ELSE IF v = 62 THEN 43 ELSE 47

\* the alphabet of 'base64url': A-Z a-z 0-9 "-" "_"
Base64UrlChar(v) ==
    IF v < 26 THEN 65 + v
    ELSE IF v < 52 THEN 97 + (v - 26)
    ELSE IF v < 62 THEN 48 + (v - 52)
    ELSE IF v = 62 THEN 45 ELSE 95

\* Buffer.from(_, 'base64url') reads both alphabets
Base64Value(c) ==
    IF c >= 65 /\ c <= 90 THEN c - 65
    ELSE IF c >= 97 /\ c <= 122 THEN c - 97 + 26
    ELSE IF c >= 48 /\ c <= 57 THEN c - 48 + 52
    ELSE IF c = 45 \/ c = 43 THEN 62 ELSE 63

\* Buffer.toString('base64url'): three bytes give four characters, no padding
RECURSIVE ToBase64Url(_)
ToBase64Url(b) ==
    IF b = <<>> THEN <<>>
    ELSE IF Len(b) = 1
         THEN <<Base64UrlChar(b[1] \div 4), Base64UrlChar((b[1] % 4) * 16)>>
    ELSE IF Len(b) = 2
         THEN <<Base64UrlChar(b[1] \div 4), Base64UrlChar((b[1] % 4) * 16 + b[2] \div 16),
                Base64UrlChar((b[2] % 16) * 4)>>
    ELSE <<Base64UrlChar(b[1] \div 4), Base64UrlChar((b[1] % 4) * 16 + b[2] \div 16),
           Base64UrlChar((b[2] % 16) * 4 + b[3] \div 64), Base64UrlChar(b[3] % 64)>>
         \o ToBase64Url(SubSeq(b, 4, Len(b)))

\* Buffer.from(encodedSegment, 'base64url')
RECURSIVE FromBase64Url(_)
FromBase64Url(c) ==
    LET v == [i \in DOMAIN c |-> Base64Value(c[i])]
    IN IF Len(c) < 2 THEN <<>>
       ELSE IF Len(c) = 2 THEN <<v[1] * 4 + v[2] \div 16>>
       ELSE IF Len(c) = 3 THEN <<v[1] * 4 + v[2] \div 16, (v[2] % 16) * 16 + v[3] \div 4>>
       ELSE <<v[1] * 4 + v[2] \div 16, (v[2] % 16) * 16 + v[3] \div 4, (v[3] % 4) * 64 + v[4]>>
            \o FromBase64Url(SubSeq(c, 5, Len(c)))

\* nonceFor: the first NONCE_LEN bytes of the HMAC of the segment under the key
nonceFor(key, segment) ==
    LET bytes == Utf8Encode(segment)
    IN [j \in 1..NonceLen |-> (key * 31 + SumBytes(bytes) * j + Len(bytes) * 7 + j * j) % 256]

\* iv = Buffer.concat([nonce6, Buffer.alloc(6)])
Iv(nonce6) == nonce6 \o [j \in 1..6 |-> 0]

\* the key stream of the cipher at byte i
KeyStream(key, iv, i) == (key * 17 + SumBytes(iv) + i * 29) % 256

\* cipher.getAuthTag(): TAG_LEN bytes over key, iv and cipher text
AuthTag(key, iv, cipherText) ==
    [j \in 1..TagLen |-> (key * 13 + SumBytes(iv) + SumBytes(cipherText) * 3 + Len(cipherText) + j * 7) % 256]

\* encryptSegment
encryptSegment(key, segment) ==
    LET nonce6 == nonceFor(key, segment)
        iv == Iv(nonce6)
        plain == Utf8Encode(segment)
        text == [i \in DOMAIN plain |-> (plain[i] + KeyStream(key, iv, i)) % 256]
        cipherText == text \o AuthTag(key, iv, text)
    IN ToBase64Url(nonce6 \o cipherText)

\* decipher.final() throws when the tag does not authenticate the text
Throws == <<-1>>

\* decryptSegment
decryptSegment(key, encodedSegment) ==
    LET buf == FromBase64Url(encodedSegment)
        nonce6 == SubSeq(buf, 1, NonceLen)
        iv == Iv(nonce6)
        payload == SubSeq(buf, NonceLen + 1, Len(buf))
        cipherText == SubSeq(payload, 1, Len(payload) - TagLen)
        authTag == SubSeq(payload, Len(payload) - TagLen + 1, Len(payload))
    IN IF Len(buf) < NonceLen + TagLen \/ authTag # AuthTag(key, iv, cipherText)
       THEN Throws
       ELSE Utf8Decode([i \in DOMAIN cipherText |->
                           (cipherText[i] + 256 - KeyStream(key, iv, i)) % 256])

\* obfuscatePath: path.split(/([/.])/), the segments encrypted, joined by ''
obfuscatePath(key, path) ==
    LET parts == Split(path, {Solidus, FullStop}, TRUE)
    IN JoinParts([i \in DOMAIN parts |->
                     IF parts[i] = <<Solidus>> \/ parts[i] = <<FullStop>>
                     THEN parts[i] ELSE encryptSegment(key, parts[i])], <<>>)

\* the blocks between "." of a block between "/", decrypted and joined by "."
RevealBlock(key, segmentBlock) ==
    LET segments == Split(segmentBlock, {FullStop}, FALSE)
        plain == [i \in DOMAIN segments |-> decryptSegment(key, segments[i])]
    IN IF \E i \in DOMAIN plain : plain[i] = Throws THEN Throws
       ELSE JoinParts(plain, <<FullStop>>)

\* revealPath
revealPath(key, obfuscated) ==
    LET blocks == Split(obfuscated, {Solidus}, FALSE)
        plain == [i \in DOMAIN blocks |-> RevealBlock(key, blocks[i])]
    IN IF \E i \in DOMAIN plain : plain[i] = Throws THEN Throws
       ELSE JoinParts(plain, <<Solidus>>)

\* a key stored by an earlier session
PriorKey == NumObfuscators + 1

\* new PathObfuscator(context): init() runs up to the await of secrets.get
NewPathObfuscator(o) ==
    /\ obfuscators[o].pc = "absent"
    /\ obfuscators' = [obfuscators EXCEPT ![o].pc = "getting"]
    /\ UNCHANGED <<secrets, randomCalls>>
    /\ UNCHANGED <<storeVars, unitVars, idxVars, merkleVars>>

\* secrets.get resolves: an existing key is taken, otherwise randomBytes(32)
\* makes a new one and secrets.store is called
GetResolves(o) ==
    LET existingKey == secrets
    IN /\ obfuscators[o].pc = "getting"
       /\ IF existingKey # NoKey
          THEN /\ obfuscators' = [obfuscators EXCEPT ![o].pc = "ready",
                                                     ![o].encryptionKey = existingKey]
               /\ UNCHANGED randomCalls
          ELSE /\ randomCalls' = randomCalls + 1
               /\ obfuscators' = [obfuscators EXCEPT ![o].pc = "storing",
                                                     ![o].newKey = randomCalls + 1]
       /\ UNCHANGED secrets
       /\ UNCHANGED <<storeVars, unitVars, idxVars, merkleVars>>

\* the secret storage writes the value of a secrets.store call
StoreWrites(o) ==
    /\ obfuscators[o].pc = "storing"
    /\ secrets' = obfuscators[o].newKey
    /\ obfuscators' = [obfuscators EXCEPT ![o].pc = "stored"]
    /\ UNCHANGED randomCalls
    /\ UNCHANGED <<storeVars, unitVars, idxVars, merkleVars>>

\* secrets.store resolves: this.encryptionKey = newKey, this.initPromise = true
StoreResolves(o) ==
    /\ obfuscators[o].pc = "stored"
    /\ obfuscators' = [obfuscators EXCEPT ![o].pc = "ready",
                                          ![o].encryptionKey = obfuscators[o].newKey]
    /\ UNCHANGED <<secrets, randomCalls>>
    /\ UNCHANGED <<storeVars, unitVars, idxVars, merkleVars>>

\* secrets.get or secrets.store rejects, and init() with it
SecretsReject(o) ==
    /\ obfuscators[o].pc \in {"getting", "storing"}
    /\ obfuscators' = [obfuscators EXCEPT ![o].pc = "failed"]
    /\ UNCHANGED <<secrets, randomCalls>>
    /\ UNCHANGED <<storeVars, unitVars, idxVars, merkleVars>>

\* obfuscatePath(path) after awaitInit(): the key getter throws when init()
\* had failed
ObfuscatePath(o, path) ==
    /\ obfuscators[o].pc \in {"ready", "failed"}
    /\ obfuscators[o].stage = "none"
    /\ obfuscators' = [obfuscators EXCEPT ![o] =
          IF obfuscators[o].pc = "failed"
          THEN [@ EXCEPT !.stage = "threw", !.path = path]
          ELSE [@ EXCEPT !.stage = "obfuscated", !.path = path,
                         !.obfuscated = obfuscatePath(obfuscators[o].encryptionKey, path)]]
    /\ UNCHANGED <<secrets, randomCalls>>
    /\ UNCHANGED <<storeVars, unitVars, idxVars, merkleVars>>

\* revealPath of what obfuscatePath gave
RevealPath(o) ==
    /\ obfuscators[o].stage = "obfuscated"
    /\ obfuscators' = [obfuscators EXCEPT ![o] =
          [@ EXCEPT !.stage = "revealed",
                    !.revealed = revealPath(obfuscators[o].encryptionKey, obfuscators[o].obfuscated)]]
    /\ UNCHANGED <<secrets, randomCalls>>
    /\ UNCHANGED <<storeVars, unitVars, idxVars, merkleVars>>

\* one PathObfuscator, a key of an earlier session in the storage or none
InitObfuscate ==
    /\ IdleStores
    /\ NoTree
    /\ secrets \in {NoKey, PriorKey}
    /\ randomCalls = 0
    /\ obfuscators = [o \in Obfuscators |-> IdleObfuscator]

Single == {o \in Obfuscators : \A other \in Obfuscators : o <= other}

NextObfuscate ==
    \/ \E o \in Single : NewPathObfuscator(o)
    \/ \E o \in Single : GetResolves(o)
    \/ \E o \in Single : StoreWrites(o)
    \/ \E o \in Single : StoreResolves(o)
    \/ \E o \in Single : SecretsReject(o)
    \/ \E o \in Single : \E path \in Paths : ObfuscatePath(o, path)
    \/ \E o \in Single : RevealPath(o)

SpecObfuscate == InitObfuscate /\ [][NextObfuscate]_vars

\* C29: whatever obfuscatePath made of a path of "/"- and "."-separated
\* segments, empty ones included, revealPath under the same key gives the
\* path back.
C29_RoundTrip ==
    \A o \in Obfuscators :
        obfuscators[o].stage = "revealed" => obfuscators[o].revealed = obfuscators[o].path

\* "/.a/" was obfuscated and revealed: a leading and a trailing delimiter,
\* two delimiters in a row, three empty segments
C29_Witness ==
    \E o \in Obfuscators :
        /\ obfuscators[o].stage = "revealed"
        /\ obfuscators[o].path = <<Solidus, FullStop, SmallA, Solidus>>
        /\ obfuscators[o].obfuscated # obfuscators[o].path
        /\ Len(Split(obfuscators[o].path, {Solidus, FullStop}, TRUE)) = 7

\* '/test/test.txt', shortened to "/a.a"
TestPath == <<Solidus, SmallA, FullStop, SmallA>>

\* PathObfuscator instances of one installation, constructed at any time
InitKey ==
    /\ IdleStores
    /\ NoTree
    /\ secrets \in {NoKey, PriorKey}
    /\ randomCalls = 0
    /\ obfuscators = [o \in Obfuscators |-> IdleObfuscator]

NextKey ==
    \/ \E o \in Obfuscators : NewPathObfuscator(o)
    \/ \E o \in Obfuscators : GetResolves(o)
    \/ \E o \in Obfuscators : StoreWrites(o)
    \/ \E o \in Obfuscators : StoreResolves(o)
    \/ \E o \in Obfuscators : SecretsReject(o)
    \/ \E o \in Obfuscators : ObfuscatePath(o, TestPath)
    \/ \E o \in Obfuscators : RevealPath(o)

SpecKey == InitKey /\ [][NextKey]_vars

\* C30: a key that is in the secret storage is never replaced by another
\* one, and an instance that obfuscates a path does it with the key that is
\* in the storage.
C30_KeyGeneratedOnce ==
    [][/\ secrets # NoKey => secrets' = secrets
       /\ \A o \in Obfuscators :
             (obfuscators[o].stage = "none" /\ obfuscators'[o].stage = "obfuscated")
                 => obfuscators[o].encryptionKey = secrets]_vars

(* ------------------- buildHashes is called once more -------------------- *)
\* fs.writeFile of a file of a hashed tree, or the file becomes unreadable
ChangeFile(dir, n, content) ==
    /\ modified = NoWrite
    /\ Hashed # {}
    /\ dir = "sub" => fileTree.hasSub
    /\ fileTree[dir][n] \notin {"none", content}
    /\ fileTree' = [fileTree EXCEPT ![dir][n] = content]
    /\ modified' = [path |-> Join(IF dir = "root" THEN RootPath ELSE SubPath, n),
                    after |-> Cardinality(Hashed)]
    /\ UNCHANGED <<children, hashes>>
    /\ UNCHANGED <<storeVars, unitVars, idxVars, walkVars, obfVars>>

\* buildHashes() on the root of a tree that is hashed already: a file node
\* whose hash candidate is null is marked excluded and keeps calculatedHash,
\* any other file node takes the candidate; excluded is never reset; the
\* directories fold their children again
RebuildHashes(b) ==
    /\ b \in Hashed
    /\ modified # NoWrite
    /\ LET files == {p \in DOMAIN hashes[b] : p # RootPath /\ p # SubPath}
           candidate == [p \in files |-> generateFileHash(ReadFile(p))]
           fileHash == [p \in files |->
                           IF candidate[p] = <<>> THEN hashes[b][p] ELSE candidate[p]]
           folded == [p \in files |->
                         IF hashes[b][p] = <<>> THEN <<>> ELSE candidate[p]]
           sortedSub == SortChildren(children[b].sub)
           subHash == DirectoryHash(SubPath, sortedSub, folded)
           below == [p \in files \cup (IF fileTree.hasSub THEN {SubPath} ELSE {}) |->
                        IF p = SubPath THEN subHash ELSE folded[p]]
           rootHash == DirectoryHash(RootPath, SortChildren(children[b].root), below)
       IN hashes' = [hashes EXCEPT ![b] =
                        [p \in DOMAIN hashes[b] |->
                            IF p = RootPath THEN rootHash
                            ELSE IF p = SubPath THEN subHash ELSE fileHash[p]]]
    /\ UNCHANGED <<fileTree, children, modified>>
    /\ UNCHANGED <<storeVars, unitVars, idxVars, walkVars, obfVars>>

\* the tree that is built and hashed twice
FirstBuild == {b \in Builds : \A a \in Builds : b <= a}

NextRehash ==
    \/ \E b \in FirstBuild : \E e \in RootEntries : PushRoot(b, e)
    \/ \E b \in FirstBuild : \E e \in SubEntries : PushSub(b, e)
    \/ \E b \in FirstBuild : BuildHashes(b)
    \/ \E dir \in {"root", "sub"} : \E n \in Names :
          \E content \in {"text", "edited", "unreadable"} : ChangeFile(dir, n, content)
    \/ \E b \in FirstBuild : RebuildHashes(b)

SpecRehash == InitHash /\ [][NextRehash]_vars

\* C31: the hash a node has got is the hash it keeps, whatever is done to
\* the node later, a further buildHashes call after a change of the file
\* included.
C31_HashImmutable ==
    [][\A b \in Hashed : \A p \in DOMAIN hashes[b] :
          hashes[b][p] # <<>> => hashes'[b][p] = hashes[b][p]]_vars

(* ------------------- the cycle after a failed upload -------------------- *)
\* the roots with a file of the cycle whose upload was rejected: no task of
\* the cycle is added to the queue again
Abandoned(call) ==
    {k \in DOMAIN call.files :
        \E i \in DOMAIN call.files[k] : call.files[k][i] \in DOMAIN call.retryMapping}

\* C32: when a cycle in which the upload of a file failed has ended, the
\* sync() that comes next does not find the client of the file's workspace
\* throttled: it sends the diff check, and the file is enqueued again if the
\* remote reports it.
C32_AbandonedFileRetried ==
    [][\A c \in Calls :
          (calls[c].pc = "upload" /\ calls'[c].pc \in {"free", "lingering"})
              => \A k \in Abandoned(calls[c]) : ~Throttled(services[k], FALSE)']_vars

\* the cycles with an upload that is queued, running, or still executing
\* after the queue has timed it out
Uploading == {c \in Calls : calls[c].pc \in {"upload", "lingering"}}

\* C33: while an upload of a cycle is queued or in flight, syncLocked is
\* true: the lock is released only when every upload of the cycle is over.
C33_LockedWhileUploading ==
    Uploading # {} => syncLocked

\* C34: the branch hash a client sends with its diff check and stores in
\* the sync status is, when the answer arrives, the HEAD commit that
\* repoBranches holds for the client's root ('' for a root without one).
C34_CurrentBranchSubmitted ==
    [][\A c \in Calls, k \in 1..NumRoots, leaf \in SUBSET Hashes, st \in ResponsesUpTo(MaxYield) :
          DiscoverResolves(c, k, leaf, st)
              => /\ calls[c].svcs[k].branchHash
                      = BranchOf(repoBranches, calls[c].svcs[k].workspacePath)
                 /\ syncStatuses'[lastSyncKey(calls[c].svcs[k])].hash
                      = BranchOf(repoBranches, calls[c].svcs[k].workspacePath)]_vars

\* C35: a state-change event of a repository whose HEAD differs from
\* repoBranches stores the new commit in repoBranches and leaves the
\* debounced recreate-and-resync scheduled; an event whose HEAD equals the
\* last observed commit changes nothing and schedules nothing.
C35_ChangeSchedulesOnlyOnNewHead ==
    [][\A r \in Repos, commit \in GitCommits :
          RepoStateChange(r, commit)
              => IF commit # BranchOf(repoBranches, r)
                 THEN repoBranches'[r] = commit /\ debounce' > 0
                 ELSE UNCHANGED <<repoBranches, debounce, calls, services,
                                  initialized, syncLocked>>]_vars

C35_Witness ==
    \E r \in Repos : /\ debounce > 0
                     /\ head[r] = "c2"
                     /\ repoBranches[r] = "c2"
                     /\ \E k \in DOMAIN services : services[k].branchHash = "c1"

\* the directories from the root to the parent of path
Chain(path) == {dir \in Dirs : IsPrefix(dir, Front(path))}

\* the disk without the ignore files of dir
WithoutIgnoreFiles(d, dir) ==
    [d EXCEPT !.gitignore[dir] = <<>>, !.posthogignore[dir] = <<>>]

\* C36: in a finished walk an entry that is not a symbolic link and whose
\* parent has a node is left out exactly if the ignore predicate of some
\* directory from the root to its parent matches its path taken from that
\* directory; and the ignore files of a directory D decide nothing for the
\* entries that are not below D.
C36_IgnoredByAncestorsOnly ==
    \A w \in Walkers :
        walkers[w].pc = "resolved" =>
            /\ \A p \in DOMAIN disk.entries :
                  (/\ disk.entries[p] # "symlink"
                   /\ (Front(p) = <<>> \/ walkers[w].pushed[Front(p)] = 1))
                  => (walkers[w].pushed[p] = 0
                        <=> \E dir \in Chain(p) :
                               Ignores(getIgnoreContext(disk, dir).ignore,
                                       RelativeTo(dir, p)))
            /\ \A dir \in Dirs \ {<<>>} : \A p \in DOMAIN disk.entries :
                  ~IsPrefix(dir, Front(p))
                  => (walkers[w].pushed[p] = 1
                        <=> p \in Reachable(WithoutIgnoreFiles(disk, dir)))

\* a finished walk of the tree of the nested-patterns test, where src has
\* *.ts and !index.ts in .gitignore and *.json in .posthogignore
C36_Witness ==
    \E w \in Walkers :
        /\ walkers[w].pc = "resolved"
        /\ disk.gitignore[SrcDir] = <<StarTs, NotIndexTs>>
        /\ disk.posthogignore[SrcDir] = <<StarJson>>
        /\ disk.gitignore[<<>>] = <<>>
        /\ disk.posthogignore[<<>>] = <<>>
        /\ disk.entries[IndexTs] = "file"
        /\ disk.entries[PackageJson] = "file"
        /\ UtilsTs \in DOMAIN disk.entries
        /\ walkers[w].pushed[IndexTs] = 1
        /\ walkers[w].pushed[UtilsTs] = 0
        /\ walkers[w].pushed[PackageJson] = 1

\* C37: processedCount never exceeds fileCount, and when the queue drains
\* and the lock is released it equals fileCount, every diverging file of
\* the cycle having been counted once.
C37_AllFilesCounted ==
    [][\A c \in Calls :
          /\ calls'[c].processedCount <= calls'[c].fileCount
          /\ (calls[c].pc = "upload" /\ calls'[c].pc \in {"free", "lingering"})
                => \/ /\ UploadSucceeds(c)
                      /\ calls[c].processedCount + 1 = calls[c].fileCount
                   \/ /\ UploadFails(c) \/ UploadTimesOut(c)
                      /\ CatchUpload(calls[c], calls[c].tasks[calls[c].started]).processedCount
                            = calls[c].fileCount]_vars

\* C38: a client whose codebaseId is null has no diff check in flight,
\* whatever forceIndex its retrieveDivergingFiles call was given (and so
\* yields no file to upload).
C38_NoRequestWithoutCodebaseId ==
    gen.pc \in {"checking", "persisting"} => ws[gen.client].codebaseId # NullId

\* C39: every entry of the two caches comes from a listDir call made since
\* the last invalidate(): no walk that was in flight during the invalidation
\* has stored a listing, or an ignore predicate computed from the entries of
\* a listing, obtained before it, so none is served to a later build.
C39_NoStaleEntryAfterInvalidate ==
    /\ \A dir \in DOMAIN dirListCache : listings[dirListCache[dir]].epoch = epoch
    /\ \A dir \in DOMAIN dirIgnoreCache :
          listings[dirIgnoreCache[dir].entries].epoch = epoch

\* the file nodes of a finished build that are not excluded
KeptFiles(b) == {n \in NodesOf(b) \ Excluded(b) : n.type = "file"}

\* C40: the leaf map of a built tree has one entry for each file node that
\* is not excluded, stored under the hash of that node, also when two files
\* have the same content; so a file whose hash the remote reports is found.
C40_LeafMapHoldsEveryFile ==
    \A b \in Hashed :
        LET map == toLeafNodesMap(b)
        IN /\ Cardinality(DOMAIN map) = Cardinality(KeptFiles(b))
           /\ \A n \in KeptFiles(b) :
                 hashes[b][n.path] \in DOMAIN map /\ map[hashes[b][n.path]] = n

====
